---- MODULE Spec2Model ----
(***************************************************************************)
(* The batch loaders of 7_weaviate:                                        *)
(*   "mx"     mx/addToCollection.py            (JSON files, retry once)    *)
(*   "mxold"  mx/old/createCollectionOld.py    (one insert per paragraph)  *)
(*   "state"  us/state/batchAddStateCollection.py          (JSONL, inline) *)
(*   "ollama" us/state/old/batchAddStateCollectionOllamaV2.py (JSONL)      *)
(* and, under PopSpec, the two-phase loaders (articles, then chunks):      *)
(*   "mx" mx/populateCollection.py, "federal" us/federal/                  *)
(*   populateCollections.py, "state" us/state/populateCollections.py       *)
(* One run of one script is one behaviour; the script is chosen in Init.   *)
(* The input is read as a stream: every read step draws the next unit      *)
(* (file, line, paragraph, chunk) from a small set.  The sink (the vector  *)
(* database) is the environment: every call to it draws its answer.        *)
(***************************************************************************)
EXTENDS Integers, Sequences, FiniteSets, TLC

(* ------------------------------ bounds --------------------------------- *)
\* records (paragraphs / chunks) read in one run
MaxRecords == 3
\* input units (JSON files / JSONL lines) opened in one run
MaxUnits == 2
\* batches of one run whose first sink call does not answer "all stored"
MaxFaults == 1
\* articles of a source file of the two-phase loaders
MaxArticles == 2
\* chunks of one article
MaxChunks == 2
\* len(text) of the texts approx_tokens is tried on, and calls per text
MaxTextLen == 40
MaxCalls == 2
\* appends to the failure-log file when it is taken on its own
MaxEntries == 2
\* keys of a JSONL line and chunks of a line, for extract_parent_info on its own
MaxKeys == 3
MaxLineChunks == 2

(* ------------------------- program constants --------------------------- *)
MX_MAX_BATCH_TOKENS == 120000
STATE_MAX_BATCH_TOKENS == 136000
OLLAMA_MAX_BATCH_TOKENS == 136000
\* retry_delay of insert_batch_with_retry, time.sleep(60) of the old script
retry_delay == 60
OLD_RETRY_SLEEP == 60

Loaders == {"mx", "mxold", "state", "ollama"}

\* len(content) of the records the input may hold: 40000, 50000 and 140000
\* tokens, the last above both limits
Lengths == {160001, 200003, 560002}
\* createCollectionOld.py never measures the content
OldLengths == {160001}

(* ------------------------------- text ---------------------------------- *)
\* The exception messages the sink may raise with, as character sequences.
ExcText ==
  [ timeout  |-> <<"t","i","m","e","d"," ","o","u","t">>,
    readonly |-> <<"S","h","a","r","d"," ","i","s"," ","R","e","a","d","-","O","n","l","y">>,
    disk     |-> <<"D","I","S","K"," ","u","s","a","g","e"," ","t","o","o"," ","h","i","g","h">> ]

ExcMsgs == DOMAIN ExcText

\* The per-object message of a rejection: the sink's reason for refusing an
\* object depends on the object.
RejectMessage(object) ==
  IF object.id % 2 = 1 THEN "vectorizer error" ELSE "invalid property"

UpperCase == <<"A","B","C","D","E","F","G","H","I","J","K","L","M",
               "N","O","P","Q","R","S","T","U","V","W","X","Y","Z">>
LowerCase == <<"a","b","c","d","e","f","g","h","i","j","k","l","m",
               "n","o","p","q","r","s","t","u","v","w","x","y","z">>

\* str.lower(), character by character
LowerChar(c) ==
  IF \E i \in 1..26 : UpperCase[i] = c
    THEN LowerCase[CHOOSE i \in 1..26 : UpperCase[i] = c]
    ELSE c

lower(s) == [i \in 1..Len(s) |-> LowerChar(s[i])]

\* pat in s
Contains(pat, s) ==
  \E i \in 0..(Len(s) - Len(pat)) : SubSeq(s, i + 1, i + Len(pat)) = pat

DISK_PATTERN == <<"d","i","s","k"," ","u","s","a","g","e"," ","t","o","o"," ","h","i","g","h">>
READONLY_PATTERN == <<"r","e","a","d","-","o","n","l","y">>

\* "disk usage too high" in error_msg.lower() or "read-only" in error_msg.lower()
IsDiskSpaceErrorCaseSensitive(msg) ==
  Contains(DISK_PATTERN, ExcText[msg]) \/ Contains(READONLY_PATTERN, ExcText[msg])

IsDiskSpaceError(msg) ==
  \/ Contains(DISK_PATTERN, lower(ExcText[msg]))
  \/ Contains(READONLY_PATTERN, lower(ExcText[msg]))

(* ------------------------------ weights -------------------------------- *)
\* (mutant) the quotient is rounded up
approx_tokens_RoundsUp(len) ==
  IF (len + 3) \div 4 > 1 THEN (len + 3) \div 4 ELSE 1

Max(a, b) == IF a >= b THEN a ELSE b

\* max(1, len(text) // 4)
approx_tokens(len) == Max(1, len \div 4)

RECURSIVE SumTokens(_)
SumTokens(items) ==
  IF items = <<>> THEN 0
  ELSE approx_tokens(Head(items).len) + SumTokens(Tail(items))

RECURSIVE Flatten(_)
Flatten(ss) == IF ss = <<>> THEN <<>> ELSE Head(ss) \o Flatten(Tail(ss))

(* ------------------------------- sink ---------------------------------- *)
\* One answer of the sink to one call with n objects:
\*   "ok"      returned, every object stored
\*   "partial" returned, the objects at the positions rej rejected (each
\*             with its own message), the others stored
\*   "raise"   raised an exception whose str() is msg
OkAnswer == [kind |-> "ok", msg |-> "", rej |-> {}]

\* The scripts other than the Ollama one never read the message of an
\* exception: two messages are enough to tell the exceptions of a retry apart.
UnreadExcMsgs == {"timeout", "readonly"}

AnswersWith(msgs, n) ==
  {OkAnswer}
    \cup {[kind |-> "raise", msg |-> m, rej |-> {}] : m \in msgs}
    \cup {[kind |-> "partial", msg |-> "", rej |-> R] : R \in (SUBSET (1..n)) \ {{}}}

Answers(n) == AnswersWith(UnreadExcMsgs, n)
OllamaAnswers(n) == AnswersWith(ExcMsgs, n)

\* collection.batch.failed_objects after a batch context: the rejected objects
\* with their messages, in batch order
failed_objects_of(batch_objects, a) ==
  LET all == [p \in 1..Len(batch_objects) |->
                [pos |-> p, message |-> RejectMessage(batch_objects[p]),
                 object_ |-> batch_objects[p]]]
  IN SelectSeq(all, LAMBDA x : x.pos \in a.rej)

Cost(a) == IF a.kind = "ok" THEN 0 ELSE 1

\* The retrying scripts never read the exception of the first attempt (they
\* print a fixed text and sleep): one message stands for all of them.
FirstExcMsgs == {"readonly"}
FirstAnswers(n) == AnswersWith(FirstExcMsgs, n)

\* The answers to the calls of one batch that is tried twice: the second call
\* is made only when the first raised.
RetryAnswers(n) ==
  {as \in FirstAnswers(n) \X Answers(n) : as[1].kind = "raise" \/ as[2] = OkAnswer}

NoCall == <<OkAnswer, OkAnswer>>

(* ------------------------------ state ---------------------------------- *)
VARIABLES
  loader,                  \* which script runs
  pc,                      \* "start", "units" (file / line loop), "records"
                           \* (paragraph / chunk loop), "done", "aborted"
  log,                     \* the failure-log file: its entries in file order
  events,                  \* history: the sink calls and sleeps, in order
  faults,                  \* history: batches whose first sink call did not answer "ok"
  nunits,                  \* history: files / lines opened so far
  records,                 \* history: the records produced so far, in order
  bad_lines,               \* history: JSONL lines that json.loads refused
  warnings,                \* output: the records a size warning was printed for
  idx,                     \* mx: enumerate(paragraphs, 1) of the open document
  current_batch,           \* mx, state
  current_batch_tokens,    \* mx, state
  chunks_inserted,         \* mx: process_document local
  chunks_failed,           \* mx: process_document local
  total_chunks,            \* mx, mxold
  total_failed,            \* mx, mxold, state
  total_chunks_processed,  \* state
  total_chunks_imported,   \* state
  total_batches,           \* state
  stats,                   \* ollama: processed / imported / failed / batches
  batch_state,             \* ollama: objects / tokens
  populate,                \* two-phase loaders: which script runs ("" under Spec)
  ppc,                     \* "load", "articles", "chunks", "done", "failed"
  articles_data,           \* the articles of the source file
  article_uuids,           \* key -> identifier (None: skipped)
  a_pos,                   \* articles the phase-1 loop has handled
  article_idx,             \* phase 2: articles left behind
  c_pos,                   \* phase 2: chunks of the current article left behind
  inserted_articles,       \* mx
  skipped_articles,        \* mx
  chunk_count,
  chunks_with_reference,   \* mx
  chunks_without_reference,\* mx
  next_uuid,               \* sink: the identifier add_object hands out next
  stored,                  \* sink: identifiers present in the article collection
  submitted,               \* history: add_object calls and batch exits, in order
  text_len,                \* approx_tokens on its own: len(text) of the argument
  results,                 \* approx_tokens on its own: what the calls returned
  fkind,                   \* the failure-log file on its own: "array" or "jsonl"
  fpc,                     \* "start", "idle", "writing" (file open), "killed"
  disk,                    \* the text of the file as the disk holds it
  buffered,                \* text written to the open file that is not on disk yet
  appending,               \* the entry of the append under way
  completed,               \* history: the entries whose append has returned
  line_data,               \* extract_parent_info on its own: the parsed line
  parent_info,             \* what extract_parent_info returned (<<>>: not called yet)
  line_chunks,             \* the properties made for the chunks of the line
  part_weights,            \* the accumulators side by side: the weights of the records
  part_limit,              \* the limit all three are run with
  part_acc,                \* per accumulator: position, batch, total, batches sent
  retry_batch,             \* insert_batch_with_retry on its own: batch_items
  retry_pc,                \* "try", "sleep", "returned"
  retry_attempt,           \* the loop variable of range(2)
  retry_returned,          \* (chunks_inserted, chunks_failed), <<>> before the return
  retry_saved,             \* the entries handed to append_oversized_chunk
  sink_count               \* sink: how many objects it holds per input record

histVars  == <<events, faults, nunits, records>>
mxVars    == <<idx, current_batch, current_batch_tokens, chunks_inserted,
               chunks_failed, total_chunks>>
stateVars == <<total_chunks_processed, total_chunks_imported, total_batches>>
ollamaVars == <<stats, batch_state>>
popVars == <<populate, ppc, articles_data, article_uuids, a_pos, article_idx, c_pos,
             inserted_articles, skipped_articles, chunk_count, chunks_with_reference,
             chunks_without_reference, next_uuid, stored, submitted>>
batchVars == <<loader, pc, log, histVars, bad_lines, warnings, mxVars, total_failed, stateVars,
               ollamaVars>>
tokVars == <<text_len, results>>
fileVars == <<fkind, fpc, disk, buffered, appending, completed>>
\* what the batch loaders never touch
parentVars == <<line_data, parent_info, line_chunks>>
partVars == <<part_weights, part_limit, part_acc>>
retryVars == <<retry_batch, retry_pc, retry_attempt, retry_returned, retry_saved,
               sink_count>>
apartVars == <<popVars, tokVars, fileVars, parentVars, partVars, retryVars>>
vars == <<batchVars, popVars, tokVars, fileVars, parentVars, partVars, retryVars>>

\* What a previous run may have left in the failure-log file.
StaleJsonEntry  == [error |-> "timeout", chunk |-> [id |-> 0, len |-> 160001], file |-> 0]
StaleJsonlEntry == [error |-> "timeout", properties |-> [id |-> 0, len |-> 160001],
                    batch_number |-> 1]
OldLogs(l) ==
  IF l \in {"mx", "mxold"} THEN {<<>>, <<StaleJsonEntry>>}
  ELSE {<<>>, <<StaleJsonlEntry>>}

ZeroStats == [processed |-> 0, imported |-> 0, failed |-> 0, batches |-> 0]
EmptyBatchState == [objects |-> <<>>, tokens |-> 0]

\* The two-phase loader before it has loaded anything.
PopIdle ==
  /\ ppc = "load"
  /\ articles_data = <<>>
  /\ article_uuids = <<>>
  /\ a_pos = 0
  /\ article_idx = 0
  /\ c_pos = 0
  /\ inserted_articles = 0
  /\ skipped_articles = 0
  /\ chunk_count = 0
  /\ chunks_with_reference = 0
  /\ chunks_without_reference = 0
  /\ next_uuid = 1
  /\ stored = {}
  /\ submitted = <<>>

\* approx_tokens has not been called.
TokIdle == text_len = 0 /\ results = <<>>

\* No entry: the value of appending between two appends.
NoEntry == [id |-> 0, error |-> ""]

\* The failure-log file before anything was done to it.
FileIdle ==
  /\ fpc = "start"
  /\ disk = <<>>
  /\ buffered = <<>>
  /\ appending = NoEntry
  /\ completed = <<>>

\* No line has been parsed.
ParentIdle == line_data = <<>> /\ parent_info = <<>> /\ line_chunks = <<>>

\* The side-by-side accumulators when another script runs.
PartIdle == part_weights = <<>> /\ part_limit = 0 /\ part_acc = <<>>

\* insert_batch_with_retry on its own, when another script runs.
RetryIdle ==
  /\ retry_batch = <<>>
  /\ retry_pc = ""
  /\ retry_attempt = 0
  /\ retry_returned = <<>>
  /\ retry_saved = <<>>
  /\ sink_count = <<>>

\* The batch loaders before they have started.
BatchIdle ==
  /\ pc = "start"
  /\ events = <<>>
  /\ faults = 0
  /\ nunits = 0
  /\ records = <<>>
  /\ bad_lines = 0
  /\ warnings = <<>>
  /\ idx = 0
  /\ current_batch = <<>>
  /\ current_batch_tokens = 0
  /\ chunks_inserted = 0
  /\ chunks_failed = 0
  /\ total_chunks = 0
  /\ total_failed = 0
  /\ total_chunks_processed = 0
  /\ total_chunks_imported = 0
  /\ total_batches = 0
  /\ stats = ZeroStats
  /\ batch_state = EmptyBatchState

Init ==
  /\ loader \in Loaders
  /\ pc = "start"
  /\ log \in OldLogs(loader)
  /\ events = <<>>
  /\ faults = 0
  /\ nunits = 0
  /\ records = <<>>
  /\ bad_lines = 0
  /\ warnings = <<>>
  /\ idx = 0
  /\ current_batch = <<>>
  /\ current_batch_tokens = 0
  /\ chunks_inserted = 0
  /\ chunks_failed = 0
  /\ total_chunks = 0
  /\ total_failed = 0
  /\ total_chunks_processed = 0
  /\ total_chunks_imported = 0
  /\ total_batches = 0
  /\ stats = ZeroStats
  /\ batch_state = EmptyBatchState
  /\ populate = ""
  /\ PopIdle
  /\ TokIdle
  /\ fkind = ""
  /\ FileIdle
  /\ ParentIdle
  /\ PartIdle
  /\ RetryIdle

\* The next record of the input: the k-th record of the run, content of len characters.
NewRecord(len) == [id |-> Len(records) + 1, len |-> len]

SinkCall(op, batch, number, attempt, a) ==
  [op |-> op, batch |-> batch, number |-> number, attempt |-> attempt, res |-> a]

Sleep(secs) ==
  [op |-> "sleep", batch |-> <<>>, number |-> secs, attempt |-> 0, res |-> OkAnswer]

(* ================= us/state/old/batchAddStateCollectionOllamaV2.py ====== *)
\* The threaded state of the helpers: s = [objects, tokens, stats, log, events, exc];
\* exc is the message of the exception that is propagating, "" when none is.

\* append_failed_chunk: open(file_path, 'a'), json.dump, write('\n')
ollama_append_failed_chunk(lg, chunk_data) == Append(lg, chunk_data)

\* (mutant) every entry carries the message of the first failed object
ollama_partial_FirstMessage(batch_objects, batch_number, s, a) ==
  LET batch_size == Len(batch_objects)
      failed_objects == failed_objects_of(batch_objects, a)
      entries == [i \in 1..Len(failed_objects) |->
                   [error |-> failed_objects[1].message,
                    properties |-> failed_objects[i].object_,
                    batch_number |-> batch_number]]
  IN [s EXCEPT !.stats.failed = @ + Len(failed_objects),
               !.log = @ \o entries,
               !.stats.imported = @ + (batch_size - Len(failed_objects))]

\* (mutant) the whole batch is counted as imported although objects failed
ollama_partial_CountsAllImported(batch_objects, batch_number, s, a) ==
  LET batch_size == Len(batch_objects)
      failed_objects == failed_objects_of(batch_objects, a)
      entries == [i \in 1..Len(failed_objects) |->
                   [error |-> failed_objects[i].message,
                    properties |-> failed_objects[i].object_,
                    batch_number |-> batch_number]]
  IN [s EXCEPT !.stats.failed = @ + Len(failed_objects),
               !.log = @ \o entries,
               !.stats.imported = @ + batch_size]

\* lines 102-114: one entry per failed object, then the imported count
ollama_partial(batch_objects, batch_number, s, a) ==
  LET batch_size == Len(batch_objects)
      failed_objects == failed_objects_of(batch_objects, a)
      entries == [i \in 1..Len(failed_objects) |->
                   [error |-> failed_objects[i].message,
                    properties |-> failed_objects[i].object_,
                    batch_number |-> batch_number]]
  IN [s EXCEPT !.stats.failed = @ + Len(failed_objects),
               !.log = @ \o entries,
               !.stats.imported = @ + (batch_size - Len(failed_objects))]

\* lines 119-142: the except branch
ollama_except(batch_objects, batch_number, s, a) ==
  LET batch_size == Len(batch_objects)
      error_msg == a.msg
      s1 == [s EXCEPT !.stats.failed = @ + batch_size]
  IN IF IsDiskSpaceError(error_msg)
       THEN [s1 EXCEPT !.exc = error_msg]
       ELSE [s1 EXCEPT !.log = @ \o [i \in 1..batch_size |->
                                      [error |-> error_msg,
                                       properties |-> batch_objects[i],
                                       batch_number |-> batch_number]]]

send_batch_to_weaviate(batch_objects, batch_number, s, a) ==
  IF batch_objects = <<>> THEN s
  ELSE
    LET batch_size == Len(batch_objects)
        s1 == [s EXCEPT !.events =
                 Append(@, SinkCall("batch", batch_objects, batch_number, 0, a))]
    IN CASE a.kind = "ok"      -> [s1 EXCEPT !.stats.imported = @ + batch_size]
         [] a.kind = "partial" -> ollama_partial(batch_objects, batch_number, s1, a)
         [] a.kind = "raise"   -> ollama_except(batch_objects, batch_number, s1, a)

\* (mutant) the test looks at the batch alone, not at the chunk to be added
should_send_batch_IgnoresChunk(current_tokens, chunk_tokens, max_tokens) ==
  current_tokens > max_tokens

should_send_batch(current_tokens, chunk_tokens, max_tokens) ==
  current_tokens + chunk_tokens > max_tokens

\* (mutant) the oversized singleton is sent under the number of the batch before
handle_oversized_chunk_SameNumber(properties, chunk_tokens, s, a) ==
  LET s1 == [s EXCEPT !.warnings = Append(@, properties)]
  IN send_batch_to_weaviate(<<properties>>, s1.stats.batches, s1, a)

handle_oversized_chunk(properties, chunk_tokens, s, a) ==
  LET s1 == [s EXCEPT !.warnings = Append(@, properties), !.stats.batches = @ + 1]
  IN send_batch_to_weaviate(<<properties>>, s1.stats.batches, s1, a)

\* (mutant) the accumulator is not emptied after the send
ollama_send_current_NoReset(s, a) ==
  LET s1 == [s EXCEPT !.stats.batches = @ + 1]
  IN send_batch_to_weaviate(s1.objects, s1.stats.batches, s1, a)

\* lines 186-192 and 198-204: count the batch, send it, empty the accumulator
\* (the last two are skipped when the send raises out of the function)
ollama_send_current(s, a) ==
  LET s1 == [s EXCEPT !.stats.batches = @ + 1]
      s2 == send_batch_to_weaviate(s1.objects, s1.stats.batches, s1, a)
  IN IF s2.exc # "" THEN s2
     ELSE [s2 EXCEPT !.objects = <<>>, !.tokens = 0]

\* The body of the for loop of process_chunks_from_line, for one chunk.
ollama_chunk(s, properties, max_tokens, a1, a2) ==
  LET chunk_tokens == approx_tokens(properties.len)
      s0 == [s EXCEPT !.stats.processed = @ + 1]
  IN IF chunk_tokens > max_tokens
       THEN LET s1 == IF s0.objects # <<>> THEN ollama_send_current(s0, a1) ELSE s0
            IN IF s1.exc # "" THEN s1
               ELSE handle_oversized_chunk(properties, chunk_tokens, s1, a2)
       ELSE LET s1 == IF should_send_batch(s0.tokens, chunk_tokens, max_tokens)
                        THEN ollama_send_current(s0, a1) ELSE s0
            IN IF s1.exc # "" THEN s1
               ELSE [s1 EXCEPT !.objects = Append(@, properties),
                               !.tokens = @ + chunk_tokens]

\* lines 256-261: the final batch
ollama_final(s, a) ==
  IF s.objects # <<>>
    THEN LET s1 == [s EXCEPT !.stats.batches = @ + 1]
         IN send_batch_to_weaviate(s1.objects, s1.stats.batches, s1, a)
    ELSE s

OllamaState ==
  [objects |-> batch_state.objects, tokens |-> batch_state.tokens, stats |-> stats,
   log |-> log, events |-> events, exc |-> "", warnings |-> warnings]

\* Which sink calls the loop body makes for a chunk of chunk_tokens tokens.
OllamaFirstAnswers(chunk_tokens) ==
  IF batch_state.objects # <<>>
     /\ (chunk_tokens > OLLAMA_MAX_BATCH_TOKENS
         \/ should_send_batch(batch_state.tokens, chunk_tokens, OLLAMA_MAX_BATCH_TOKENS))
    THEN OllamaAnswers(Len(batch_state.objects)) ELSE {OkAnswer}

OllamaSecondAnswers(chunk_tokens, a1) ==
  IF chunk_tokens > OLLAMA_MAX_BATCH_TOKENS
     /\ ~(a1.kind = "raise" /\ IsDiskSpaceError(a1.msg))
    THEN OllamaAnswers(1) ELSE {OkAnswer}

OllamaCommit(s, nextpc) ==
  /\ batch_state' = [objects |-> s.objects, tokens |-> s.tokens]
  /\ stats' = s.stats
  /\ log' = s.log
  /\ events' = s.events
  /\ warnings' = s.warnings
  /\ pc' = IF s.exc # "" THEN "aborted" ELSE nextpc

\* main(): setup_output_file; process_jsonl_file up to its first line
ollama_start ==
  /\ loader = "ollama" /\ pc = "start"
  /\ log' = <<>>
  /\ stats' = ZeroStats
  /\ batch_state' = EmptyBatchState
  /\ pc' = "units"
  /\ UNCHANGED <<apartVars, warnings, bad_lines, loader, histVars, mxVars, total_failed, stateVars>>

\* json.loads(line) raises JSONDecodeError: the line is skipped
\* (mutant) a line that is not JSON ends the run
ollama_bad_line_Aborts ==
  /\ loader = "ollama" /\ pc = "units"
  /\ nunits < MaxUnits
  /\ nunits' = nunits + 1
  /\ bad_lines' = bad_lines + 1
  /\ pc' = "aborted"
  /\ UNCHANGED <<apartVars, warnings, loader, log, events, faults, records, mxVars, total_failed,
                 stateVars, ollamaVars>>

ollama_bad_line ==
  /\ loader = "ollama" /\ pc = "units"
  /\ nunits < MaxUnits
  /\ nunits' = nunits + 1
  /\ bad_lines' = bad_lines + 1
  /\ UNCHANGED <<apartVars, warnings, loader, pc, log, events, faults, records, mxVars, total_failed,
                 stateVars, ollamaVars>>

\* json.loads(line) succeeds: process_chunks_from_line starts on its chunks
ollama_read_line ==
  /\ loader = "ollama" /\ pc = "units"
  /\ nunits < MaxUnits
  /\ nunits' = nunits + 1
  /\ pc' = "records"
  /\ UNCHANGED <<apartVars, warnings, bad_lines, loader, log, events, faults, records, mxVars, total_failed,
                 stateVars, ollamaVars>>

\* one iteration of the for loop of process_chunks_from_line
ollama_process_chunk ==
  /\ loader = "ollama" /\ pc = "records"
  /\ Len(records) < MaxRecords
  /\ \E len \in Lengths :
       \E a1 \in OllamaFirstAnswers(approx_tokens(len)) :
         \E a2 \in OllamaSecondAnswers(approx_tokens(len), a1) :
           /\ faults + Cost(a1) + Cost(a2) <= MaxFaults
           /\ faults' = faults + Cost(a1) + Cost(a2)
           /\ records' = Append(records, NewRecord(len))
           /\ OllamaCommit(ollama_chunk(OllamaState, NewRecord(len),
                                        OLLAMA_MAX_BATCH_TOKENS, a1, a2), "records")
  /\ UNCHANGED <<apartVars, bad_lines, loader, nunits, mxVars, total_failed, stateVars>>

\* the chunks of the line are exhausted
ollama_end_line ==
  /\ loader = "ollama" /\ pc = "records"
  /\ pc' = "units"
  /\ UNCHANGED <<apartVars, warnings, bad_lines, loader, log, histVars, mxVars, total_failed, stateVars, ollamaVars>>

\* the file is exhausted: the final batch, return stats, print_summary
ollama_end_of_file ==
  /\ loader = "ollama" /\ pc = "units"
  /\ \E a \in (IF batch_state.objects # <<>>
                 THEN OllamaAnswers(Len(batch_state.objects)) ELSE {OkAnswer}) :
       /\ faults + Cost(a) <= MaxFaults
       /\ faults' = faults + Cost(a)
       /\ OllamaCommit(ollama_final(OllamaState, a), "done")
  /\ UNCHANGED <<apartVars, bad_lines, loader, nunits, records, mxVars, total_failed, stateVars>>

(* ========================= mx/addToCollection.py ======================== *)
\* A batch item: lines 170-178.  token_count is create_chunk_object's
\* approx_tokens(content); file_name is the number of the open document.
batch_item_of(paragraph, file_name) ==
  [paragraph |-> paragraph, token_count |-> approx_tokens(paragraph.len),
   file_name |-> file_name]

\* append_oversized_chunk: json.load the whole file, append, json.dump it back
\* (mutant) the file is written back with the new chunk only
append_oversized_chunk_DropsOld(lg, chunk_data) ==
  <<chunk_data>>

append_oversized_chunk(lg, chunk_data) ==
  LET oversized_chunks == lg
  IN Append(oversized_chunks, chunk_data)

\* (mutant) only the first item of the batch is saved
save_failed_chunks_OnlyFirst(lg, batch_items, e) ==
  IF batch_items = <<>> THEN lg
  ELSE append_oversized_chunk(lg, [error |-> e,
                                   chunk |-> Head(batch_items).paragraph,
                                   file |-> Head(batch_items).file_name])

\* lines 121-129: every item of the batch is saved with str(e)
RECURSIVE save_failed_chunks(_, _, _)
save_failed_chunks(lg, batch_items, e) ==
  IF batch_items = <<>> THEN lg
  ELSE save_failed_chunks(
         append_oversized_chunk(lg, [error |-> e,
                                     chunk |-> Head(batch_items).paragraph,
                                     file |-> Head(batch_items).file_name]),
         Tail(batch_items), e)

\* (mutant) the items are saved as soon as the first attempt fails
insert_attempt_SavesFirstFailure(batch_items, r, as, attempt) ==
  LET batch_size == Len(batch_items)
      call(k) == SinkCall("insert_many", batch_items, 0, k, as[k + 1])
  IN IF as[1].kind # "raise"
       THEN [r EXCEPT !.events = Append(@, call(0)),
                      !.inserted = batch_size, !.failed = 0]
     ELSE
       LET r1 == [r EXCEPT !.events = @ \o <<call(0), Sleep(retry_delay), call(1)>>,
                           !.log = save_failed_chunks(@, batch_items, as[1].msg)]
       IN IF as[2].kind # "raise"
            THEN [r1 EXCEPT !.inserted = batch_size, !.failed = 0]
            ELSE [r1 EXCEPT !.log = save_failed_chunks(@, batch_items, as[2].msg),
                            !.inserted = 0, !.failed = batch_size]

\* for attempt in range(2): one pass of the loop body, then the next pass.
\* r = [inserted, failed, log, events]
RECURSIVE insert_attempt(_, _, _, _)
insert_attempt(batch_items, r, as, attempt) ==
  LET batch_size == Len(batch_items)
  IN IF attempt >= 2 THEN [r EXCEPT !.inserted = 0, !.failed = batch_size]
     ELSE
       LET a == as[attempt + 1]
           r1 == [r EXCEPT !.events =
                    Append(@, SinkCall("insert_many", batch_items, 0, attempt, a))]
       IN IF a.kind # "raise"
            THEN [r1 EXCEPT !.inserted = batch_size, !.failed = 0]
          ELSE IF attempt = 0
            THEN insert_attempt(batch_items,
                                [r1 EXCEPT !.events = Append(@, Sleep(retry_delay))],
                                as, attempt + 1)
          ELSE [r1 EXCEPT !.log = save_failed_chunks(@, batch_items, a.msg),
                          !.inserted = 0, !.failed = batch_size]

\* (mutant) a sleep follows the second failure as well
insert_batch_with_retry_SleepsAgain(batch_items, lg, ev, as) ==
  LET r == insert_attempt(batch_items,
                          [inserted |-> 0, failed |-> 0, log |-> lg, events |-> ev],
                          as, 0)
  IN IF r.failed > 0 THEN [r EXCEPT !.events = Append(@, Sleep(retry_delay))] ELSE r

insert_batch_with_retry(batch_items, lg, ev, as) ==
  insert_attempt(batch_items, [inserted |-> 0, failed |-> 0, log |-> lg, events |-> ev],
                 as, 0)

\* inserted, failed = insert_batch_with_retry(...); chunks_inserted += inserted;
\* chunks_failed += failed.   s = [current_batch, current_batch_tokens,
\* chunks_inserted, chunks_failed, log, events]
mx_flush(s, batch_items, as) ==
  LET r == insert_batch_with_retry(batch_items, s.log, s.events, as)
  IN [s EXCEPT !.chunks_inserted = @ + r.inserted,
               !.chunks_failed = @ + r.failed,
               !.log = r.log,
               !.events = r.events]

\* (mutant) the item is appended before the full batch is flushed
mx_paragraph_FlushIncludesItem(s, batch_item, as1, as2) ==
  LET token_count == batch_item.token_count
  IN IF s.current_batch # <<>>
        /\ s.current_batch_tokens + token_count > MX_MAX_BATCH_TOKENS
       THEN [mx_flush(s, Append(s.current_batch, batch_item), as1) EXCEPT
               !.current_batch = <<>>,
               !.current_batch_tokens = 0]
     ELSE IF token_count > MX_MAX_BATCH_TOKENS
       THEN mx_flush(s, <<batch_item>>, as2)
     ELSE [s EXCEPT !.current_batch = Append(@, batch_item),
                    !.current_batch_tokens = @ + token_count]

\* The body of the for loop of process_document (lines 180-210), for one item.
mx_paragraph(s, batch_item, as1, as2) ==
  LET token_count == batch_item.token_count
  IN IF s.current_batch # <<>>
        /\ s.current_batch_tokens + token_count > MX_MAX_BATCH_TOKENS
       THEN [mx_flush(s, s.current_batch, as1) EXCEPT
               !.current_batch = <<batch_item>>,
               !.current_batch_tokens = token_count]
     ELSE IF token_count > MX_MAX_BATCH_TOKENS
       THEN LET s1 == IF s.current_batch # <<>>
                        THEN [mx_flush(s, s.current_batch, as1) EXCEPT
                                !.current_batch = <<>>,
                                !.current_batch_tokens = 0]
                        ELSE s
                s2 == [s1 EXCEPT !.warnings = Append(@, batch_item.paragraph)]
            IN mx_flush(s2, <<batch_item>>, as2)
     ELSE [s EXCEPT !.current_batch = Append(@, batch_item),
                    !.current_batch_tokens = @ + token_count]

\* lines 213-216: the remaining chunks of the document
\* (mutant) the pending batch is dropped at the end of the paragraphs
mx_remaining_NoFlush(s, as) ==
  s

mx_remaining(s, as) ==
  IF s.current_batch # <<>> THEN mx_flush(s, s.current_batch, as) ELSE s

MxState ==
  [current_batch |-> current_batch, current_batch_tokens |-> current_batch_tokens,
   chunks_inserted |-> chunks_inserted, chunks_failed |-> chunks_failed,
   log |-> log, events |-> events, warnings |-> warnings]

\* Which sink calls the loop body makes for an item of token_count tokens.
MxFirstAnswers(token_count) ==
  IF current_batch # <<>>
     /\ current_batch_tokens + token_count > MX_MAX_BATCH_TOKENS
    THEN RetryAnswers(Len(current_batch)) ELSE {NoCall}

MxSecondAnswers(token_count) ==
  IF ~(current_batch # <<>>
       /\ current_batch_tokens + token_count > MX_MAX_BATCH_TOKENS)
     /\ token_count > MX_MAX_BATCH_TOKENS
    THEN RetryAnswers(1) ELSE {NoCall}

MxCommit(s) ==
  /\ current_batch' = s.current_batch
  /\ current_batch_tokens' = s.current_batch_tokens
  /\ chunks_inserted' = s.chunks_inserted
  /\ chunks_failed' = s.chunks_failed
  /\ log' = s.log
  /\ events' = s.events
  /\ warnings' = s.warnings

\* main(): initialize_output_file, connect, get the collection, list the files
\* (mutant) the output file is left as the previous run wrote it
mx_start_KeepsFile ==
  /\ loader = "mx" /\ pc = "start"
  /\ total_chunks' = 0
  /\ total_failed' = 0
  /\ pc' = "units"
  /\ UNCHANGED <<apartVars, warnings, bad_lines, loader, log, histVars, idx, current_batch, current_batch_tokens,
                 chunks_inserted, chunks_failed, stateVars, ollamaVars>>

mx_start ==
  /\ loader = "mx" /\ pc = "start"
  /\ log' = <<>>
  /\ total_chunks' = 0
  /\ total_failed' = 0
  /\ pc' = "units"
  /\ UNCHANGED <<apartVars, warnings, bad_lines, loader, histVars, idx, current_batch, current_batch_tokens,
                 chunks_inserted, chunks_failed, stateVars, ollamaVars>>

\* process_document on a file that json.load cannot parse: the exception leaves
\* process_document and the for loop of main and is caught at line 263
mx_bad_document ==
  /\ loader = "mx" /\ pc = "units"
  /\ nunits < MaxUnits
  /\ nunits' = nunits + 1
  /\ pc' = "aborted"
  /\ UNCHANGED <<apartVars, warnings, bad_lines, loader, log, events, faults, records, mxVars, total_failed,
                 stateVars, ollamaVars>>

\* process_document up to its for loop (lines 143-161)
\* (mutant) the batch of the previous document is still there
mx_open_document_KeepsBatch ==
  /\ loader = "mx" /\ pc = "units"
  /\ nunits < MaxUnits
  /\ nunits' = nunits + 1
  /\ idx' = 0
  /\ chunks_inserted' = 0
  /\ chunks_failed' = 0
  /\ pc' = "records"
  /\ UNCHANGED <<apartVars, warnings, bad_lines, loader, log, events, faults, records, total_chunks, total_failed,
                 current_batch, current_batch_tokens, stateVars, ollamaVars>>

mx_open_document ==
  /\ loader = "mx" /\ pc = "units"
  /\ nunits < MaxUnits
  /\ nunits' = nunits + 1
  /\ idx' = 0
  /\ chunks_inserted' = 0
  /\ chunks_failed' = 0
  /\ current_batch' = <<>>
  /\ current_batch_tokens' = 0
  /\ pc' = "records"
  /\ UNCHANGED <<apartVars, warnings, bad_lines, loader, log, events, faults, records, total_chunks, total_failed,
                 stateVars, ollamaVars>>

\* one iteration of the for loop of process_document
mx_process_paragraph ==
  /\ loader = "mx" /\ pc = "records"
  /\ Len(records) < MaxRecords
  /\ \E len \in Lengths :
       \E as1 \in MxFirstAnswers(approx_tokens(len)) :
         \E as2 \in MxSecondAnswers(approx_tokens(len)) :
           /\ faults + Cost(as1[1]) + Cost(as2[1]) <= MaxFaults
           /\ faults' = faults + Cost(as1[1]) + Cost(as2[1])
           /\ records' = Append(records, NewRecord(len))
           /\ idx' = idx + 1
           /\ MxCommit(mx_paragraph(MxState, batch_item_of(NewRecord(len), nunits),
                                    as1, as2))
  /\ UNCHANGED <<apartVars, bad_lines, loader, pc, nunits, total_chunks, total_failed, stateVars, ollamaVars>>

\* the paragraphs are exhausted: the remaining batch, return, and the two
\* additions of main (lines 258-259)
mx_end_document ==
  /\ loader = "mx" /\ pc = "records"
  /\ \E as \in (IF current_batch # <<>>
                  THEN RetryAnswers(Len(current_batch)) ELSE {NoCall}) :
       /\ faults + Cost(as[1]) <= MaxFaults
       /\ faults' = faults + Cost(as[1])
       /\ LET s == mx_remaining(MxState, as)
          IN /\ MxCommit(s)
             /\ total_chunks' = total_chunks + s.chunks_inserted
             /\ total_failed' = total_failed + s.chunks_failed
  /\ pc' = "units"
  /\ UNCHANGED <<apartVars, bad_lines, loader, nunits, records, idx, stateVars, ollamaVars>>

\* the files are exhausted: print_summary
mx_finish ==
  /\ loader = "mx" /\ pc = "units"
  /\ pc' = "done"
  /\ UNCHANGED <<apartVars, warnings, bad_lines, loader, log, histVars, mxVars, total_failed, stateVars, ollamaVars>>

MxNext ==
  \/ mx_start
  \/ mx_bad_document
  \/ mx_open_document
  \/ mx_process_paragraph
  \/ mx_end_document
  \/ mx_finish

OllamaNext ==
  \/ ollama_start
  \/ ollama_bad_line
  \/ ollama_read_line
  \/ ollama_process_chunk
  \/ ollama_end_line
  \/ ollama_end_of_file

(* ================= us/state/batchAddStateCollection.py ================== *)
\* append_failed_chunk: open(output_file, 'a'), json.dump, write('\n')
state_append_failed_chunk(lg, chunk_data) == Append(lg, chunk_data)

\* send_batch.  s = [current_batch, current_batch_tokens, total_batches,
\* total_chunks_imported, total_failed, log, events].  The batch context is
\* left without an exception also when the sink rejected objects: the script
\* never reads failed_objects.
\* (mutant) the entries of a failed batch are numbered by their position
send_batch_NumbersByPosition(batch_objects, s, a) ==
  IF batch_objects = <<>> THEN s
  ELSE
    LET batch_size == Len(batch_objects)
        s1 == [s EXCEPT !.total_batches = @ + 1]
        s2 == [s1 EXCEPT !.events =
                 Append(@, SinkCall("batch", batch_objects, s1.total_batches, 0, a))]
    IN IF a.kind # "raise"
         THEN [s2 EXCEPT !.total_chunks_imported = @ + batch_size]
         ELSE [s2 EXCEPT !.total_failed = @ + batch_size,
                         !.log = @ \o [i \in 1..batch_size |->
                                        [error |-> a.msg,
                                         properties |-> batch_objects[i],
                                         batch_number |-> i]]]

send_batch(batch_objects, s, a) ==
  IF batch_objects = <<>> THEN s
  ELSE
    LET batch_size == Len(batch_objects)
        s1 == [s EXCEPT !.total_batches = @ + 1]
        s2 == [s1 EXCEPT !.events =
                 Append(@, SinkCall("batch", batch_objects, s1.total_batches, 0, a))]
    IN IF a.kind # "raise"
         THEN [s2 EXCEPT !.total_chunks_imported = @ + batch_size]
         ELSE [s2 EXCEPT !.total_failed = @ + batch_size,
                         !.log = @ \o [i \in 1..batch_size |->
                                        [error |-> a.msg,
                                         properties |-> batch_objects[i],
                                         batch_number |-> s2.total_batches]]]

\* The body of the inner for loop (lines 117-143), for one chunk.
\* (mutant) the pending batch is sent but kept when an oversized chunk arrives
state_chunk_KeepsPending(s, properties, a1, a2) ==
  LET chunk_tokens == approx_tokens(properties.len)
  IN IF chunk_tokens > STATE_MAX_BATCH_TOKENS
       THEN LET s1 == IF s.current_batch # <<>>
                        THEN send_batch(s.current_batch, s, a1)
                        ELSE s
            IN send_batch(<<properties>>, s1, a2)
     ELSE IF s.current_batch_tokens + chunk_tokens > STATE_MAX_BATCH_TOKENS
       THEN [send_batch(s.current_batch, s, a1) EXCEPT
               !.current_batch = <<properties>>,
               !.current_batch_tokens = chunk_tokens]
     ELSE [s EXCEPT !.current_batch = Append(@, properties),
                    !.current_batch_tokens = @ + chunk_tokens]

\* (mutant) the running total is carried over into the new batch
state_chunk_KeepsTotal(s, properties, a1, a2) ==
  LET chunk_tokens == approx_tokens(properties.len)
  IN IF chunk_tokens > STATE_MAX_BATCH_TOKENS
       THEN LET s1 == IF s.current_batch # <<>>
                        THEN [send_batch(s.current_batch, s, a1) EXCEPT
                                !.current_batch = <<>>,
                                !.current_batch_tokens = 0]
                        ELSE s
                s2 == [s1 EXCEPT !.warnings = Append(@, properties)]
            IN send_batch(<<properties>>, s2, a2)
     ELSE IF s.current_batch_tokens + chunk_tokens > STATE_MAX_BATCH_TOKENS
       THEN [send_batch(s.current_batch, s, a1) EXCEPT
               !.current_batch = <<properties>>,
               !.current_batch_tokens = @ + chunk_tokens]
     ELSE [s EXCEPT !.current_batch = Append(@, properties),
                    !.current_batch_tokens = @ + chunk_tokens]

state_chunk(s, properties, a1, a2) ==
  LET chunk_tokens == approx_tokens(properties.len)
  IN IF chunk_tokens > STATE_MAX_BATCH_TOKENS
       THEN LET s1 == IF s.current_batch # <<>>
                        THEN [send_batch(s.current_batch, s, a1) EXCEPT
                                !.current_batch = <<>>,
                                !.current_batch_tokens = 0]
                        ELSE s
                s2 == [s1 EXCEPT !.warnings = Append(@, properties)]
            IN send_batch(<<properties>>, s2, a2)
     ELSE IF s.current_batch_tokens + chunk_tokens > STATE_MAX_BATCH_TOKENS
       THEN [send_batch(s.current_batch, s, a1) EXCEPT
               !.current_batch = <<properties>>,
               !.current_batch_tokens = chunk_tokens]
     ELSE [s EXCEPT !.current_batch = Append(@, properties),
                    !.current_batch_tokens = @ + chunk_tokens]

\* lines 158-159: the final batch
state_final(s, a) ==
  IF s.current_batch # <<>> THEN send_batch(s.current_batch, s, a) ELSE s

StateState ==
  [current_batch |-> current_batch, current_batch_tokens |-> current_batch_tokens,
   total_batches |-> total_batches, total_chunks_imported |-> total_chunks_imported,
   total_failed |-> total_failed, log |-> log, events |-> events,
   warnings |-> warnings]

StateFirstAnswers(chunk_tokens) ==
  IF current_batch # <<>>
     /\ (chunk_tokens > STATE_MAX_BATCH_TOKENS
         \/ current_batch_tokens + chunk_tokens > STATE_MAX_BATCH_TOKENS)
    THEN Answers(Len(current_batch)) ELSE {OkAnswer}

StateSecondAnswers(chunk_tokens) ==
  IF chunk_tokens > STATE_MAX_BATCH_TOKENS THEN Answers(1) ELSE {OkAnswer}

StateCommit(s) ==
  /\ current_batch' = s.current_batch
  /\ current_batch_tokens' = s.current_batch_tokens
  /\ total_batches' = s.total_batches
  /\ total_chunks_imported' = s.total_chunks_imported
  /\ total_failed' = s.total_failed
  /\ log' = s.log
  /\ events' = s.events
  /\ warnings' = s.warnings

\* lines 13-49: unlink the output file, connect, zero the counters
state_start ==
  /\ loader = "state" /\ pc = "start"
  /\ log' = <<>>
  /\ total_chunks_processed' = 0
  /\ total_chunks_imported' = 0
  /\ total_failed' = 0
  /\ total_batches' = 0
  /\ current_batch' = <<>>
  /\ current_batch_tokens' = 0
  /\ pc' = "units"
  /\ UNCHANGED <<apartVars, warnings, bad_lines, loader, histVars, idx, chunks_inserted, chunks_failed, total_chunks,
                 ollamaVars>>

\* json.loads(line) raises JSONDecodeError (lines 153-155)
state_bad_line ==
  /\ loader = "state" /\ pc = "units"
  /\ nunits < MaxUnits
  /\ nunits' = nunits + 1
  /\ bad_lines' = bad_lines + 1
  /\ UNCHANGED <<apartVars, warnings, loader, pc, log, events, faults, records, mxVars, total_failed,
                 stateVars, ollamaVars>>

\* json.loads(line) succeeds (lines 85-98)
state_read_line ==
  /\ loader = "state" /\ pc = "units"
  /\ nunits < MaxUnits
  /\ nunits' = nunits + 1
  /\ pc' = "records"
  /\ UNCHANGED <<apartVars, warnings, bad_lines, loader, log, events, faults, records, mxVars, total_failed,
                 stateVars, ollamaVars>>

\* one iteration of the inner for loop
state_process_chunk ==
  /\ loader = "state" /\ pc = "records"
  /\ Len(records) < MaxRecords
  /\ \E len \in Lengths :
       \E a1 \in StateFirstAnswers(approx_tokens(len)) :
         \E a2 \in StateSecondAnswers(approx_tokens(len)) :
           /\ faults + Cost(a1) + Cost(a2) <= MaxFaults
           /\ faults' = faults + Cost(a1) + Cost(a2)
           /\ records' = Append(records, NewRecord(len))
           /\ total_chunks_processed' = total_chunks_processed + 1
           /\ StateCommit(state_chunk(StateState, NewRecord(len), a1, a2))
  /\ UNCHANGED <<apartVars, bad_lines, loader, pc, nunits, idx, chunks_inserted, chunks_failed, total_chunks,
                 ollamaVars>>

\* the chunks of the line are exhausted (lines 149-151)
state_end_line ==
  /\ loader = "state" /\ pc = "records"
  /\ pc' = "units"
  /\ UNCHANGED <<apartVars, warnings, bad_lines, loader, log, histVars, mxVars, total_failed, stateVars, ollamaVars>>

\* the file is exhausted: the final batch and the summary (lines 157-169)
state_end_of_file ==
  /\ loader = "state" /\ pc = "units"
  /\ \E a \in (IF current_batch # <<>> THEN Answers(Len(current_batch)) ELSE {OkAnswer}) :
       /\ faults + Cost(a) <= MaxFaults
       /\ faults' = faults + Cost(a)
       /\ StateCommit(state_final(StateState, a))
  /\ pc' = "done"
  /\ UNCHANGED <<apartVars, bad_lines, loader, nunits, records, idx, chunks_inserted, chunks_failed,
                 total_chunks, total_chunks_processed, ollamaVars>>

StateNext ==
  \/ state_start
  \/ state_bad_line
  \/ state_read_line
  \/ state_process_chunk
  \/ state_end_line
  \/ state_end_of_file

(* ===================== mx/old/createCollectionOld.py ==================== *)
\* A single insert either stores the object or raises.
InsertAnswers == {a \in Answers(1) : a.kind # "partial"}

OldRetryAnswers ==
  {as \in (InsertAnswers \cap FirstAnswers(1)) \X InsertAnswers :
     as[1].kind = "raise" \/ as[2] = OkAnswer}

\* lines 110-132: for attempt in range(2).  r = [total_chunks, total_failed, log, events]
RECURSIVE old_insert_attempt(_, _, _, _, _)
old_insert_attempt(paragraph, file_name, r, as, attempt) ==
  IF attempt >= 2 THEN r
  ELSE
    LET a == as[attempt + 1]
        r1 == [r EXCEPT !.events =
                 Append(@, SinkCall("insert", <<paragraph>>, 0, attempt, a))]
    IN IF a.kind # "raise"
         THEN [r1 EXCEPT !.total_chunks = @ + 1]
       ELSE IF attempt = 0
         THEN old_insert_attempt(paragraph, file_name,
                                 [r1 EXCEPT !.events = Append(@, Sleep(OLD_RETRY_SLEEP))],
                                 as, attempt + 1)
       ELSE [r1 EXCEPT !.log = append_oversized_chunk(@, [error |-> a.msg,
                                                          chunk |-> paragraph,
                                                          file |-> file_name]),
                       !.total_failed = @ + 1]

\* lines 9-77: write [] to the output file, recreate the collection, list the files
mxold_start ==
  /\ loader = "mxold" /\ pc = "start"
  /\ log' = <<>>
  /\ total_chunks' = 0
  /\ total_failed' = 0
  /\ pc' = "units"
  /\ UNCHANGED <<apartVars, warnings, bad_lines, loader, histVars, idx, current_batch, current_batch_tokens,
                 chunks_inserted, chunks_failed, stateVars, ollamaVars>>

\* json.load(f) raises: caught by the except of line 146
mxold_bad_document ==
  /\ loader = "mxold" /\ pc = "units"
  /\ nunits < MaxUnits
  /\ nunits' = nunits + 1
  /\ pc' = "aborted"
  /\ UNCHANGED <<apartVars, warnings, bad_lines, loader, log, events, faults, records, mxVars, total_failed,
                 stateVars, ollamaVars>>

\* lines 80-89
mxold_open_document ==
  /\ loader = "mxold" /\ pc = "units"
  /\ nunits < MaxUnits
  /\ nunits' = nunits + 1
  /\ idx' = 0
  /\ pc' = "records"
  /\ UNCHANGED <<apartVars, warnings, bad_lines, loader, log, events, faults, records, current_batch,
                 current_batch_tokens, chunks_inserted, chunks_failed, total_chunks,
                 total_failed, stateVars, ollamaVars>>

\* one iteration of the paragraph loop (lines 92-132)
mxold_insert_paragraph ==
  /\ loader = "mxold" /\ pc = "records"
  /\ Len(records) < MaxRecords
  /\ \E len \in OldLengths :
       \E as \in OldRetryAnswers :
         /\ faults + Cost(as[1]) <= MaxFaults
         /\ faults' = faults + Cost(as[1])
         /\ records' = Append(records, NewRecord(len))
         /\ idx' = idx + 1
         /\ LET r == old_insert_attempt(NewRecord(len), nunits,
                        [total_chunks |-> total_chunks, total_failed |-> total_failed,
                         log |-> log, events |-> events], as, 0)
            IN /\ total_chunks' = r.total_chunks
               /\ total_failed' = r.total_failed
               /\ log' = r.log
               /\ events' = r.events
  /\ UNCHANGED <<apartVars, warnings, bad_lines, loader, pc, nunits, current_batch, current_batch_tokens,
                 chunks_inserted, chunks_failed, stateVars, ollamaVars>>

\* line 134
mxold_end_document ==
  /\ loader = "mxold" /\ pc = "records"
  /\ pc' = "units"
  /\ UNCHANGED <<apartVars, warnings, bad_lines, loader, log, histVars, mxVars, total_failed, stateVars, ollamaVars>>

\* lines 136-144: the summary
mxold_finish ==
  /\ loader = "mxold" /\ pc = "units"
  /\ pc' = "done"
  /\ UNCHANGED <<apartVars, warnings, bad_lines, loader, log, histVars, mxVars, total_failed, stateVars, ollamaVars>>

MxOldNext ==
  \/ mxold_start
  \/ mxold_bad_document
  \/ mxold_open_document
  \/ mxold_insert_paragraph
  \/ mxold_end_document
  \/ mxold_finish

(* ============ the two-phase loaders: populate_collections_batch ========= *)
PopScripts == {"mx", "federal", "state"}

\* article_uuids[idx] = None
None == 0

\* str.strip(): leading and trailing whitespace removed
Whitespace == {" ", "\t", "\n"}

RECURSIVE lstrip(_)
lstrip(s) ==
  IF s # <<>> /\ Head(s) \in Whitespace THEN lstrip(Tail(s)) ELSE s

RECURSIVE rstrip(_)
rstrip(s) ==
  IF s # <<>> /\ s[Len(s)] \in Whitespace THEN rstrip(SubSeq(s, 1, Len(s) - 1)) ELSE s

strip(s) == rstrip(lstrip(s))

\* The inputs: an article is [article_name, full_content, sub_chunks]; a name
\* is a path <<document, number>>; a chunk is [name, start_offset].
ArticleNames == {<<"Ley", 1>>, <<"Ley", 2>>}
\* full_content: empty, blank, or text; only mx/populateCollection.py looks at
\* it (strip), for the other two a blank is text like any other
Contents(script) ==
  IF script = "mx" THEN {<<>>, <<" ">>, <<"a", " ">>} ELSE {<<>>, <<"a", " ">>}

sub_chunks_of(name, n) == [k \in 1..n |-> [name |-> name, start_offset |-> k]]

Articles(script) ==
  {[article_name |-> nm, full_content |-> c, sub_chunks |-> sub_chunks_of(nm, n)] :
     nm \in ArticleNames, c \in Contents(script), n \in 0..MaxChunks}

\* json.load(f) / the parsed lines of the JSONL file
SourceFiles(script) == UNION {[1..n -> Articles(script)] : n \in 0..MaxArticles}

\* mx/populateCollection.py lines 41-44: the name of an article is the name of
\* its first chunk, or a fallback made of its index
mx_article_name(idx0, article_data) ==
  IF article_data.sub_chunks # <<>>
    THEN article_data.sub_chunks[1].name
    ELSE <<"article_", idx0>>

\* The key under which phase 1 files an identifier and phase 2 looks it up;
\* idx0 is the article's index in the file, from 0.
(* (mutant) mx/populateCollection.py keyed by the article's name *)
KeyOf_ByName(script, idx0, article_data) ==
  CASE script = "mx"      -> mx_article_name(idx0, article_data)
    [] script = "federal" -> article_data.article_name
    [] script = "state"   -> <<Head(article_data.article_name),
                               Tail(article_data.article_name)>>

KeyOf(script, idx0, article_data) ==
  CASE script = "mx"      -> idx0
    [] script = "federal" -> article_data.article_name
    [] script = "state"   -> <<Head(article_data.article_name),
                               Tail(article_data.article_name)>>

\* article_uuids[key] = value
dict_set(dict, key, value) == (key :> value) @@ dict

\* article_uuids.get(key)
dict_get(dict, key) == IF key \in DOMAIN dict THEN dict[key] ELSE None

\* One entry of the history: op is "add_article", "exit_articles", "add_chunk"
\* or "exit_chunks"; art is the position (from 1) of the article concerned,
\* uuid what add_object returned, ref the source_article reference (None: none).
PopEvent(op, art, uuid, ref) == [op |-> op, art |-> art, uuid |-> uuid, ref |-> ref]

\* Whether phase 1 submits the article (only mx/populateCollection.py tests it).
\* (mutant) the content is tested as it is, not stripped
submits_article_Unstripped(script, article_data) ==
  script = "mx" => article_data.full_content # <<>>

submits_article(script, article_data) ==
  script = "mx" => strip(article_data.full_content) # <<>>

PopInit ==
  /\ loader = "none"
  /\ log = <<>>
  /\ BatchIdle
  /\ populate \in PopScripts
  /\ PopIdle
  /\ TokIdle
  /\ fkind = ""
  /\ FileIdle
  /\ ParentIdle
  /\ PartIdle
  /\ RetryIdle

\* with open(...)/json.load: the file is read whole
pop_load ==
  /\ ppc = "load"
  /\ \E file \in SourceFiles(populate) : articles_data' = file
  /\ ppc' = "articles"
  /\ UNCHANGED <<batchVars, tokVars, fileVars, parentVars, partVars, retryVars,
               populate, article_uuids, a_pos, article_idx, c_pos,
                 inserted_articles, skipped_articles, chunk_count,
                 chunks_with_reference, chunks_without_reference, next_uuid, stored,
                 submitted>>

\* json.load raises: the except of process_all_json_files takes the file as failed
pop_bad_file ==
  /\ ppc = "load"
  /\ ppc' = "failed"
  /\ UNCHANGED <<batchVars, tokVars, fileVars, parentVars, partVars, retryVars,
               populate, articles_data, article_uuids, a_pos, article_idx,
                 c_pos, inserted_articles, skipped_articles, chunk_count,
                 chunks_with_reference, chunks_without_reference, next_uuid, stored,
                 submitted>>

\* one iteration of the loop of step 1, inside the article batch context
pop_add_article ==
  /\ ppc = "articles"
  /\ a_pos < Len(articles_data)
  /\ LET article_data == articles_data[a_pos + 1]
         key == KeyOf(populate, a_pos, article_data)
     IN IF submits_article(populate, article_data)
          THEN /\ submitted' = Append(submitted,
                                 PopEvent("add_article", a_pos + 1, next_uuid, None))
               /\ article_uuids' = dict_set(article_uuids, key, next_uuid)
               /\ next_uuid' = next_uuid + 1
               /\ inserted_articles' = inserted_articles + 1
               /\ UNCHANGED skipped_articles
          ELSE /\ article_uuids' = dict_set(article_uuids, key, None)
               /\ skipped_articles' = skipped_articles + 1
               /\ UNCHANGED <<submitted, next_uuid, inserted_articles>>
  /\ a_pos' = a_pos + 1
  /\ UNCHANGED <<batchVars, tokVars, fileVars, parentVars, partVars, retryVars,
               populate, ppc, articles_data, article_idx, c_pos,
                 chunk_count, chunks_with_reference, chunks_without_reference, stored>>

\* (mutant) the article batch context is left although articles remain
pop_exit_articles_Early ==
  /\ ppc = "articles"
  /\ a_pos <= Len(articles_data)
  /\ \E rejected \in SUBSET {submitted[i].uuid : i \in DOMAIN submitted} :
       /\ Cardinality(rejected) <= MaxFaults
       /\ stored' = {submitted[i].uuid : i \in DOMAIN submitted} \ rejected
  /\ submitted' = Append(submitted, PopEvent("exit_articles", 0, None, None))
  /\ ppc' = "chunks"
  /\ UNCHANGED <<batchVars, tokVars, fileVars, parentVars, partVars, retryVars,
               populate, articles_data, article_uuids, a_pos, article_idx,
                 c_pos, inserted_articles, skipped_articles, chunk_count,
                 chunks_with_reference, chunks_without_reference, next_uuid>>

\* the article batch context is left: the bulk write is over; the sink may
\* have rejected articles without raising
pop_exit_articles ==
  /\ ppc = "articles"
  /\ a_pos = Len(articles_data)
  /\ \E rejected \in SUBSET {submitted[i].uuid : i \in DOMAIN submitted} :
       /\ Cardinality(rejected) <= MaxFaults
       /\ stored' = {submitted[i].uuid : i \in DOMAIN submitted} \ rejected
  /\ submitted' = Append(submitted, PopEvent("exit_articles", 0, None, None))
  /\ ppc' = "chunks"
  /\ UNCHANGED <<batchVars, tokVars, fileVars, parentVars, partVars, retryVars,
               populate, articles_data, article_uuids, a_pos, article_idx,
                 c_pos, inserted_articles, skipped_articles, chunk_count,
                 chunks_with_reference, chunks_without_reference, next_uuid>>

\* one iteration of the inner loop of step 2, inside the chunk batch context
pop_add_chunk ==
  /\ ppc = "chunks"
  /\ article_idx < Len(articles_data)
  /\ c_pos < Len(articles_data[article_idx + 1].sub_chunks)
  /\ LET article_data == articles_data[article_idx + 1]
         article_uuid == dict_get(article_uuids, KeyOf(populate, article_idx, article_data))
     IN /\ submitted' = Append(submitted,
                          PopEvent("add_chunk", article_idx + 1, next_uuid, article_uuid))
        /\ IF article_uuid # None
             THEN /\ chunks_with_reference' = chunks_with_reference + 1
                  /\ UNCHANGED chunks_without_reference
             ELSE /\ chunks_without_reference' = chunks_without_reference + 1
                  /\ UNCHANGED chunks_with_reference
  /\ next_uuid' = next_uuid + 1
  /\ chunk_count' = chunk_count + 1
  /\ c_pos' = c_pos + 1
  /\ UNCHANGED <<batchVars, tokVars, fileVars, parentVars, partVars, retryVars,
               populate, ppc, articles_data, article_uuids, a_pos,
                 article_idx, inserted_articles, skipped_articles, stored>>

\* the chunks of the article are exhausted (or it has none): the next article
pop_next_article ==
  /\ ppc = "chunks"
  /\ article_idx < Len(articles_data)
  /\ c_pos = Len(articles_data[article_idx + 1].sub_chunks)
  /\ article_idx' = article_idx + 1
  /\ c_pos' = 0
  /\ UNCHANGED <<batchVars, tokVars, fileVars, parentVars, partVars, retryVars,
               populate, ppc, articles_data, article_uuids, a_pos,
                 inserted_articles, skipped_articles, chunk_count,
                 chunks_with_reference, chunks_without_reference, next_uuid, stored,
                 submitted>>

\* the chunk batch context is left; return inserted_articles, chunk_count
pop_exit_chunks ==
  /\ ppc = "chunks"
  /\ article_idx = Len(articles_data)
  /\ submitted' = Append(submitted, PopEvent("exit_chunks", 0, None, None))
  /\ ppc' = "done"
  /\ UNCHANGED <<batchVars, tokVars, fileVars, parentVars, partVars, retryVars,
               populate, articles_data, article_uuids, a_pos, article_idx,
                 c_pos, inserted_articles, skipped_articles, chunk_count,
                 chunks_with_reference, chunks_without_reference, next_uuid, stored>>

PopNext ==
  \/ pop_load
  \/ pop_bad_file
  \/ pop_add_article
  \/ pop_exit_articles
  \/ pop_add_chunk
  \/ pop_next_article
  \/ pop_exit_chunks

PopSpec == PopInit /\ [][PopNext]_vars

(* ======================= approx_tokens on its own ====================== *)
TokInit ==
  /\ loader = "none"
  /\ log = <<>>
  /\ BatchIdle
  /\ populate = ""
  /\ PopIdle
  /\ text_len \in 0..MaxTextLen
  /\ results = <<>>
  /\ fkind = ""
  /\ FileIdle
  /\ ParentIdle
  /\ PartIdle
  /\ RetryIdle

\* approx_tokens(text) is called on the text
tok_call ==
  /\ Len(results) < MaxCalls
  /\ results' = Append(results, approx_tokens(text_len))
  /\ UNCHANGED <<batchVars, popVars, fileVars, parentVars, partVars, retryVars,
               text_len>>

TokNext == tok_call

TokSpec == TokInit /\ [][TokNext]_vars

(* ===================== the failure-log file on its own ================== *)
\* The text of the file is a sequence of tokens: the brackets of the array,
\* the comma between two entries, the braces and the body of an entry, and
\* the newline that ends a line.
Tok(c, entry) == [c |-> c, entry |-> entry]
Punct(c) == Tok(c, NoEntry)

\* json.dump(chunk_data, f): one object
dump_entry(entry) == <<Punct("{"), Tok("body", entry), Punct("}")>>

RECURSIVE dump_items(_)
dump_items(entries) ==
  IF entries = <<>> THEN <<>>
  ELSE IF Len(entries) = 1 THEN dump_entry(Head(entries))
  ELSE dump_entry(Head(entries)) \o <<Punct(",")>> \o dump_items(Tail(entries))

\* json.dump(oversized_chunks, f, indent=2): the whole list
json_dump(entries) == <<Punct("[")>> \o dump_items(entries) \o <<Punct("]")>>

\* json.load(f) of a file that holds a list: its objects, in order
json_load(text) ==
  LET bodies == SelectSeq(text, LAMBDA t : t.c = "body")
  IN [i \in 1..Len(bodies) |-> bodies[i].entry]

\* The kinds of failure log: the JSON array of addToCollection.py and
\* createCollectionOld.py, the JSONL file of the two state scripts.
FileKinds == {"array", "jsonl"}

\* What a previous run may have left in the file.
StaleEntry == [id |-> 0, error |-> "timeout"]
OldFiles(kind) ==
  IF kind = "array" THEN {<<>>, json_dump(<<StaleEntry>>)}
  ELSE {<<>>, dump_entry(StaleEntry) \o <<Punct("\n")>>}

FileInit ==
  /\ loader = "none"
  /\ log = <<>>
  /\ BatchIdle
  /\ populate = ""
  /\ PopIdle
  /\ TokIdle
  /\ fkind \in FileKinds
  /\ fpc = "start"
  /\ disk \in OldFiles(fkind)
  /\ buffered = <<>>
  /\ appending = NoEntry
  /\ completed = <<>>
  /\ ParentIdle
  /\ PartIdle
  /\ RetryIdle

\* initialize_output_file (open 'w', json.dump([])) / output_file.unlink()
file_initialize ==
  /\ fpc = "start"
  /\ disk' = IF fkind = "array" THEN json_dump(<<>>) ELSE <<>>
  /\ fpc' = "idle"
  /\ UNCHANGED <<batchVars, popVars, tokVars, parentVars, partVars, retryVars,
               fkind, buffered, appending, completed>>

\* append_oversized_chunk up to its json.dump: the file is read whole, then
\* opened with 'w', which truncates it, and the new list is written to the
\* file object.  append_failed_chunk up to its write('\n'): the file is opened
\* with 'a' and the object and the newline are written to the file object.
file_open_and_write ==
  /\ fpc = "idle"
  /\ Len(completed) < MaxEntries
  /\ \E error \in UnreadExcMsgs :
       LET chunk_data == [id |-> Len(completed) + 1, error |-> error]
       IN /\ appending' = chunk_data
          /\ IF fkind = "array"
               THEN LET oversized_chunks == json_load(disk)
                    IN /\ disk' = <<>>
                       /\ buffered' = json_dump(Append(oversized_chunks, chunk_data))
               ELSE /\ disk' = disk
                    /\ buffered' = dump_entry(chunk_data) \o <<Punct("\n")>>
  /\ fpc' = "writing"
  /\ UNCHANGED <<batchVars, popVars, tokVars, parentVars, partVars, retryVars,
               fkind, completed>>

\* the file object's buffer fills while text is written to it: what it holds
\* goes to the disk, the rest of the text follows later
file_flush_buffer ==
  /\ fpc = "writing"
  /\ \E k \in 1..(Len(buffered) - 1) :
       /\ disk' = disk \o SubSeq(buffered, 1, k)
       /\ buffered' = SubSeq(buffered, k + 1, Len(buffered))
  /\ UNCHANGED <<batchVars, popVars, tokVars, parentVars, partVars, retryVars,
               fkind, fpc, appending, completed>>

\* the with block is left: the rest of the text goes to the disk, the file is
\* closed and the append returns
file_close ==
  /\ fpc = "writing"
  /\ disk' = disk \o buffered
  /\ buffered' = <<>>
  /\ completed' = Append(completed, appending)
  /\ appending' = NoEntry
  /\ fpc' = "idle"
  /\ UNCHANGED <<batchVars, popVars, tokVars, parentVars, partVars, retryVars,
               fkind>>

\* the process is killed: what the file object still holds is lost
file_kill ==
  /\ fpc # "killed"
  /\ fpc' = "killed"
  /\ buffered' = <<>>
  /\ UNCHANGED <<batchVars, popVars, tokVars, parentVars, partVars, retryVars,
               fkind, disk, appending, completed>>

FileNext ==
  \/ file_initialize
  \/ file_open_and_write
  \/ file_flush_buffer
  \/ file_close
  \/ file_kill

FileSpec == FileInit /\ [][FileNext]_vars

(* ==================== extract_parent_info on its own =================== *)
\* Texts are sequences of characters; a parsed line is the sequence of its
\* [key, value] pairs in the order of the line (a dict keeps that order).
PARENT_PREFIX == <<"p","a","r","e","n","t","_">>
DigitChars == <<"0","1","2","3","4","5","6","7","8","9">>

\* k.startswith(prefix)
startswith(s, prefix) ==
  Len(s) >= Len(prefix) /\ SubSeq(s, 1, Len(prefix)) = prefix

\* s.split(sep): the pieces between the separators
RECURSIVE split_from(_, _, _)
split_from(s, sep, piece) ==
  IF s = <<>> THEN <<piece>>
  ELSE IF Head(s) = sep THEN <<piece>> \o split_from(Tail(s), sep, <<>>)
  ELSE split_from(Tail(s), sep, Append(piece, Head(s)))

split(s, sep) == split_from(s, sep, <<>>)

\* int(text) of a text of decimal digits
DigitValue(c) == (CHOOSE i \in 1..10 : DigitChars[i] = c) - 1

RECURSIVE int_from(_, _)
int_from(s, acc) ==
  IF s = <<>> THEN acc ELSE int_from(Tail(s), 10 * acc + DigitValue(Head(s)))

int(s) == int_from(s, 0)

\* str(n) of a natural number
RECURSIVE str(_)
str(n) ==
  IF n < 10 THEN <<DigitChars[n + 1]>>
  ELSE str(n \div 10) \o <<DigitChars[(n % 10) + 1]>>

\* key=lambda x: int(x.split('_')[1])
\* (mutant) the keys are ordered by their first digit, as texts compare
sort_key_FirstDigit(x) == int(<<Head(split(x, "_")[2])>>)

sort_key(x) == int(split(x, "_")[2])

\* sorted(keys, key=...): stable, smallest key first
RECURSIVE insert_sorted(_, _)
insert_sorted(x, s) ==
  IF s = <<>> THEN <<x>>
  ELSE IF sort_key(x) < sort_key(Head(s)) THEN <<x>> \o s
  ELSE <<Head(s)>> \o insert_sorted(x, Tail(s))

RECURSIVE sorted_from(_, _)
sorted_from(keys, acc) ==
  IF keys = <<>> THEN acc ELSE sorted_from(Tail(keys), insert_sorted(Head(keys), acc))

sorted(keys) == sorted_from(keys, <<>>)

\* data.keys(), data[k], data.get(k, default)
dict_keys(d) == [i \in DOMAIN d |-> d[i].key]
dict_item(d, k) == d[CHOOSE i \in DOMAIN d : d[i].key = k].value
dict_get_default(d, k, default) ==
  IF \E i \in DOMAIN d : d[i].key = k THEN dict_item(d, k) ELSE default

extract_parent_info(d) ==
  LET parent_keys == sorted(SelectSeq(dict_keys(d),
                                      LAMBDA k : startswith(k, PARENT_PREFIX)))
      article == IF parent_keys # <<>>
                   THEN dict_get_default(d, parent_keys[Len(parent_keys)], <<>>)
                   ELSE <<>>
      from_article == IF Len(parent_keys) > 1
                        THEN [i \in 1..(Len(parent_keys) - 1) |->
                                dict_item(d, parent_keys[i + 1])]
                        ELSE <<>>
  IN [article |-> article, from_article |-> from_article]

\* create_chunk_properties: what it takes from the line
create_chunk_properties(chunk, article, from_article) ==
  [chunk |-> chunk, article |-> article, fromArticle |-> from_article]

\* The inputs: the numbers of the parent keys a line may have, the key of a
\* number, a key that is no parent key, and the lines with distinct keys.
ParentNumbers == {0, 2, 10}
KeyText(n) == PARENT_PREFIX \o str(n)
CHUNKS_KEY == <<"c","h","u","n","k","s">>
LineKeys == {KeyText(n) : n \in ParentNumbers} \cup {CHUNKS_KEY}
\* the value of the p-th key of the line
ValueAt(p) == <<"name", p>>

Lines ==
  UNION {{[p \in 1..n |-> [key |-> ks[p], value |-> ValueAt(p)]] :
            ks \in {f \in [1..n -> LineKeys] :
                      \A i, j \in 1..n : i # j => f[i] # f[j]}} :
         n \in 0..MaxKeys}

ParentInit ==
  /\ loader = "none"
  /\ log = <<>>
  /\ BatchIdle
  /\ populate = ""
  /\ PopIdle
  /\ TokIdle
  /\ fkind = ""
  /\ FileIdle
  /\ line_data \in Lines
  /\ parent_info = <<>>
  /\ line_chunks = <<>>
  /\ PartIdle
  /\ RetryIdle

\* article, from_article = extract_parent_info(data)
parent_extract ==
  /\ parent_info = <<>>
  /\ parent_info' = <<extract_parent_info(line_data)>>
  /\ UNCHANGED <<batchVars, popVars, tokVars, fileVars, partVars, retryVars,
               line_data, line_chunks>>

\* one iteration of the chunk loop: create_chunk_properties
parent_chunk ==
  /\ parent_info # <<>>
  /\ Len(line_chunks) < MaxLineChunks
  /\ line_chunks' = Append(line_chunks,
                           create_chunk_properties(Len(line_chunks) + 1,
                                                   parent_info[1].article,
                                                   parent_info[1].from_article))
  /\ UNCHANGED <<batchVars, popVars, tokVars, fileVars, partVars, retryVars,
               line_data, parent_info>>

ParentNext ==
  \/ parent_extract
  \/ parent_chunk

ParentSpec == ParentInit /\ [][ParentNext]_vars

(* ========== the three accumulators side by side, sink always answering ==========
   The loops of process_document (addToCollection.py), of the module body of
   batchAddStateCollection.py and of process_chunks_from_line /
   process_jsonl_file (batchAddStateCollectionOllamaV2.py), run on the same
   weights with the same limit: MAX_BATCH_TOKENS / max_tokens is part_limit.
   A record is its position in part_weights; no accumulator reads what the
   sink answered, so only the batches handed to it are kept. *)
Accumulators == {"process_document", "state_loop", "process_jsonl_file"}

PartWeights == {approx_tokens(l) : l \in Lengths}
PartLimits == {MX_MAX_BATCH_TOKENS, STATE_MAX_BATCH_TOKENS}

EmptyAccumulator ==
  [pos |-> 0, batch |-> <<>>, tokens |-> 0, sent |-> <<>>, done |-> FALSE]

\* insert_batch_with_retry / send_batch / send_batch_to_weaviate as the loops
\* see them: the batch goes to the sink (the last two return at once on an
\* empty batch, the first is never called with one).
part_send(acc, batch_objects) ==
  IF batch_objects = <<>> THEN acc
  ELSE [acc EXCEPT !.sent = Append(@, batch_objects)]

\* (mutant) the pending batch is flushed when the limit is reached, not passed
process_document_paragraph_AtLimit(acc, batch_item, token_count, limit) ==
  IF acc.batch # <<>> /\ acc.tokens + token_count >= limit
    THEN [part_send(acc, acc.batch) EXCEPT !.batch = <<batch_item>>,
                                           !.tokens = token_count]
  ELSE IF token_count > limit
    THEN LET a1 == IF acc.batch # <<>>
                     THEN [part_send(acc, acc.batch) EXCEPT !.batch = <<>>,
                                                            !.tokens = 0]
                     ELSE acc
         IN part_send(a1, <<batch_item>>)
  ELSE [acc EXCEPT !.batch = Append(@, batch_item), !.tokens = @ + token_count]

\* addToCollection.py, the body of the paragraph loop
process_document_paragraph(acc, batch_item, token_count, limit) ==
  IF acc.batch # <<>> /\ acc.tokens + token_count > limit
    THEN [part_send(acc, acc.batch) EXCEPT !.batch = <<batch_item>>,
                                           !.tokens = token_count]
  ELSE IF token_count > limit
    THEN LET a1 == IF acc.batch # <<>>
                     THEN [part_send(acc, acc.batch) EXCEPT !.batch = <<>>,
                                                            !.tokens = 0]
                     ELSE acc
         IN part_send(a1, <<batch_item>>)
  ELSE [acc EXCEPT !.batch = Append(@, batch_item), !.tokens = @ + token_count]

\* batchAddStateCollection.py, the body of the chunk loop
state_loop_chunk(acc, properties, chunk_tokens, limit) ==
  IF chunk_tokens > limit
    THEN LET a1 == IF acc.batch # <<>>
                     THEN [part_send(acc, acc.batch) EXCEPT !.batch = <<>>,
                                                            !.tokens = 0]
                     ELSE acc
         IN part_send(a1, <<properties>>)
  ELSE IF acc.tokens + chunk_tokens > limit
    THEN [part_send(acc, acc.batch) EXCEPT !.batch = <<properties>>,
                                           !.tokens = chunk_tokens]
  ELSE [acc EXCEPT !.batch = Append(@, properties), !.tokens = @ + chunk_tokens]

\* batchAddStateCollectionOllamaV2.py, the body of the chunk loop
process_chunks_chunk(acc, properties, chunk_tokens, limit) ==
  IF chunk_tokens > limit
    THEN LET a1 == IF acc.batch # <<>>
                     THEN [part_send(acc, acc.batch) EXCEPT !.batch = <<>>,
                                                            !.tokens = 0]
                     ELSE acc
         IN part_send(a1, <<properties>>)
  ELSE LET a1 == IF should_send_batch(acc.tokens, chunk_tokens, limit)
                   THEN [part_send(acc, acc.batch) EXCEPT !.batch = <<>>,
                                                          !.tokens = 0]
                   ELSE acc
       IN [a1 EXCEPT !.batch = Append(@, properties), !.tokens = @ + chunk_tokens]

\* the "if current_batch:" flush after each of the three loops
part_remaining(acc) == [part_send(acc, acc.batch) EXCEPT !.done = TRUE]

PartInit ==
  /\ loader = "none"
  /\ log = <<>>
  /\ BatchIdle
  /\ populate = ""
  /\ PopIdle
  /\ TokIdle
  /\ fkind = ""
  /\ FileIdle
  /\ ParentIdle
  /\ RetryIdle
  /\ part_weights \in UNION {[1..n -> PartWeights] : n \in 0..MaxRecords}
  /\ part_limit \in PartLimits
  /\ part_acc = [a \in Accumulators |-> EmptyAccumulator]

PartReads(a) == ~part_acc[a].done /\ part_acc[a].pos < Len(part_weights)
PartEnds(a) == ~part_acc[a].done /\ part_acc[a].pos = Len(part_weights)

PartCommit(a, acc) ==
  /\ part_acc' = [part_acc EXCEPT ![a] = acc]
  /\ UNCHANGED <<batchVars, popVars, tokVars, fileVars, parentVars, retryVars,
                 part_weights, part_limit>>

part_process_document_paragraph ==
  /\ PartReads("process_document")
  /\ LET acc == part_acc["process_document"]
         i == acc.pos + 1
     IN PartCommit("process_document",
                   [process_document_paragraph(acc, i, part_weights[i], part_limit)
                      EXCEPT !.pos = i])

part_process_document_remaining ==
  /\ PartEnds("process_document")
  /\ PartCommit("process_document", part_remaining(part_acc["process_document"]))

part_state_loop_chunk ==
  /\ PartReads("state_loop")
  /\ LET acc == part_acc["state_loop"]
         i == acc.pos + 1
     IN PartCommit("state_loop",
                   [state_loop_chunk(acc, i, part_weights[i], part_limit)
                      EXCEPT !.pos = i])

part_state_loop_remaining ==
  /\ PartEnds("state_loop")
  /\ PartCommit("state_loop", part_remaining(part_acc["state_loop"]))

part_process_chunks_chunk ==
  /\ PartReads("process_jsonl_file")
  /\ LET acc == part_acc["process_jsonl_file"]
         i == acc.pos + 1
     IN PartCommit("process_jsonl_file",
                   [process_chunks_chunk(acc, i, part_weights[i], part_limit)
                      EXCEPT !.pos = i])

part_process_jsonl_file_remaining ==
  /\ PartEnds("process_jsonl_file")
  /\ PartCommit("process_jsonl_file", part_remaining(part_acc["process_jsonl_file"]))

PartNext ==
  \/ part_process_document_paragraph
  \/ part_process_document_remaining
  \/ part_state_loop_chunk
  \/ part_state_loop_remaining
  \/ part_process_chunks_chunk
  \/ part_process_jsonl_file_remaining

PartSpec == PartInit /\ [][PartNext]_vars

(* ====== insert_batch_with_retry on its own, with the sink's store in view ======
   addToCollection.py lines 86-131.  The objects handed to insert_many carry
   no identifier (create_chunk_object, lines 71-79), so the sink makes a new
   object for every object of every call it accepts; sink_count[i] is the
   number of objects it holds for input record i.  A call may return with all
   objects stored, return with some refused (the returned value is not read),
   or raise with any part of the batch already stored. *)
RetryBatches ==
  {[i \in 1..n |-> batch_item_of([id |-> i, len |-> 160001], 1)] : n \in 1..MaxRecords}

RetryInit ==
  /\ loader = "none"
  /\ log = <<>>
  /\ BatchIdle
  /\ populate = ""
  /\ PopIdle
  /\ TokIdle
  /\ fkind = ""
  /\ FileIdle
  /\ ParentIdle
  /\ PartIdle
  /\ retry_batch \in RetryBatches
  /\ retry_pc = "try"
  /\ retry_attempt = 0
  /\ retry_returned = <<>>
  /\ retry_saved = <<>>
  /\ sink_count = [i \in 1..Len(retry_batch) |-> 0]

\* the sink after it stored the objects at the positions in S
sink_store(S) == [i \in DOMAIN sink_count |-> sink_count[i] + (IF i \in S THEN 1 ELSE 0)]

\* lines 103-109: insert_many stores every object and returns
retry_insert_ok ==
  /\ retry_pc = "try"
  /\ sink_count' = sink_store(DOMAIN retry_batch)
  /\ retry_returned' = <<Len(retry_batch), 0>>
  /\ retry_pc' = "returned"
  /\ UNCHANGED <<batchVars, popVars, tokVars, fileVars, parentVars, partVars,
                 retry_batch, retry_attempt, retry_saved>>

\* lines 103-109: insert_many returns with some objects refused
retry_insert_refuses ==
  /\ retry_pc = "try"
  /\ \E S \in SUBSET DOMAIN retry_batch :
       /\ S # {} /\ S # DOMAIN retry_batch
       /\ sink_count' = sink_store(S)
  /\ retry_returned' = <<Len(retry_batch), 0>>
  /\ retry_pc' = "returned"
  /\ UNCHANGED <<batchVars, popVars, tokVars, fileVars, parentVars, partVars,
                 retry_batch, retry_attempt, retry_saved>>

\* lines 111-114: the first attempt raises
retry_first_raises ==
  /\ retry_pc = "try" /\ retry_attempt = 0
  /\ \E S \in SUBSET DOMAIN retry_batch : sink_count' = sink_store(S)
  /\ retry_pc' = "sleep"
  /\ UNCHANGED <<batchVars, popVars, tokVars, fileVars, parentVars, partVars,
                 retry_batch, retry_attempt, retry_returned, retry_saved>>

\* time.sleep(retry_delay) returns and the loop takes attempt 1
retry_sleep ==
  /\ retry_pc = "sleep"
  /\ retry_attempt' = 1
  /\ retry_pc' = "try"
  /\ UNCHANGED <<batchVars, popVars, tokVars, fileVars, parentVars, partVars,
                 retry_batch, retry_returned, retry_saved, sink_count>>

\* lines 115-129: the retry raises as well
retry_second_raises ==
  /\ retry_pc = "try" /\ retry_attempt = 1
  /\ \E S \in SUBSET DOMAIN retry_batch : sink_count' = sink_store(S)
  /\ \E e \in UnreadExcMsgs :
       retry_saved' = save_failed_chunks(retry_saved, retry_batch, ExcText[e])
  /\ retry_returned' = <<0, Len(retry_batch)>>
  /\ retry_pc' = "returned"
  /\ UNCHANGED <<batchVars, popVars, tokVars, fileVars, parentVars, partVars,
                 retry_batch, retry_attempt>>

RetryNext ==
  \/ retry_insert_ok
  \/ retry_insert_refuses
  \/ retry_first_raises
  \/ retry_sleep
  \/ retry_second_raises

RetrySpec == RetryInit /\ [][RetryNext]_vars

Next ==
  \/ MxNext
  \/ MxOldNext
  \/ StateNext
  \/ OllamaNext

Spec == Init /\ [][Next]_vars

(* ======================= what the properties read ====================== *)
Batching == {"mx", "state", "ollama"}

Limit ==
  CASE loader = "mx"    -> MX_MAX_BATCH_TOKENS
    [] loader = "state" -> STATE_MAX_BATCH_TOKENS
    [] OTHER            -> OLLAMA_MAX_BATCH_TOKENS

\* The input records of a batch (addToCollection.py wraps each in a batch item).
Recs(batch) ==
  [i \in 1..Len(batch) |-> IF loader = "mx" THEN batch[i].paragraph ELSE batch[i]]

CurRecs == IF loader = "ollama" THEN batch_state.objects ELSE Recs(current_batch)
CurTokens == IF loader = "ollama" THEN batch_state.tokens ELSE current_batch_tokens

Weight(r) == approx_tokens(r.len)
Oversized(r) == Weight(r) > Limit

IsCall(e) == e.op # "sleep"
Calls(ev) == SelectSeq(ev, IsCall)
FirstCalls(ev) == SelectSeq(ev, LAMBDA e : IsCall(e) /\ e.attempt = 0)
\* The batches handed to the sink, in order (a retry hands the same batch again).
RECURSIVE Sent(_)
Sent(ev) ==
  IF ev = <<>> THEN <<>>
  ELSE IF IsCall(Head(ev)) /\ Head(ev).attempt = 0
    THEN <<Recs(Head(ev).batch)>> \o Sent(Tail(ev))
  ELSE Sent(Tail(ev))

\* In a step: the events the step added, and the record it read.
NewEvents == SubSeq(events', Len(events) + 1, Len(events'))
ReadsRecord == Len(records') = Len(records) + 1
TheRecord == records'[Len(records')]

\* The run (for addToCollection.py also: the last call of process_document)
\* has returned normally.
Returned ==
  \/ pc = "done"
  \/ loader = "mx" /\ pc = "units" /\ nunits > 0

(* ------------------------------- C1 ------------------------------------ *)
\* C1: every batch handed to the sink by the three accumulators weighs at
\* most the limit, unless it holds exactly one record whose own weight
\* exceeds the limit.
C1_BatchWithinLimit ==
  loader \in Batching =>
    \A i \in DOMAIN events :
      IsCall(events[i]) =>
        LET b == Recs(events[i].batch)
        IN \/ SumTokens(b) <= Limit
           \/ Len(b) = 1 /\ Weight(b[1]) > Limit

C1_Witness ==
  /\ loader = "ollama"
  /\ \E i, j \in DOMAIN events :
       /\ IsCall(events[i]) /\ Len(events[i].batch) >= 2
       /\ SumTokens(Recs(events[i].batch)) = 90000
       /\ IsCall(events[j]) /\ Len(events[j].batch) = 1
       /\ Oversized(events[j].batch[1])

(* ------------------------------- C2 ------------------------------------ *)
\* Whether record r is one of the records of batch b.
Holds(b, r) == \E p \in DOMAIN b : b[p] = r

\* The step that reads an oversized record r (and is not cut short by the
\* abort of C10): the pending batch, when there is one, is the first batch
\* handed to the sink and is handed over as it was; every other batch of the
\* step is [r]; with no pending batch [r] is sent at once; r shares the
\* accumulator with no other record.
C2_Step ==
  (loader \in {"mx", "ollama"} /\ ReadsRecord /\ Oversized(TheRecord) /\ pc' # "aborted") =>
    LET r == TheRecord
        pending == CurRecs
        newb == Sent(NewEvents)
    IN /\ pending # <<>> => (newb # <<>> /\ newb[1] = pending)
       /\ pending = <<>> => newb = << <<r>> >>
       /\ \A i \in DOMAIN newb : (i > 1 \/ pending = <<>>) => newb[i] = <<r>>
       /\ \A i \in DOMAIN NewEvents :
            IsCall(NewEvents[i]) => Recs(NewEvents[i].batch) \in {pending, <<r>>}
       /\ IF loader = "mx" THEN Recs(current_batch') \in {<<>>, <<r>>}
          ELSE batch_state'.objects \in {<<>>, <<r>>}

\* After a normal return: every oversized record was handed to the sink, in
\* batches that hold it alone, and only after every batch that holds an
\* earlier record.
C2_Final ==
  (loader \in {"mx", "ollama"} /\ Returned) =>
    \A k \in DOMAIN records :
      Oversized(records[k]) =>
        /\ \E j \in DOMAIN events :
             IsCall(events[j]) /\ Recs(events[j].batch) = <<records[k]>>
        /\ \A j \in DOMAIN events :
             (IsCall(events[j]) /\ Holds(Recs(events[j].batch), records[k])) =>
               /\ Recs(events[j].batch) = <<records[k]>>
               /\ \A i \in DOMAIN events :
                    (IsCall(events[i])
                     /\ \E p \in DOMAIN events[i].batch :
                          Recs(events[i].batch)[p].id < k) => i < j

\* C2: a record heavier than the limit is sent alone, after the pending
\* batch, which is sent first and unmodified (process_document and
\* process_chunks_from_line).
C2_OversizedAloneAfterPending == [][C2_Step]_vars /\ [](C2_Final)

C2_Witness ==
  /\ loader = "mx" /\ Returned
  /\ Len(records) = 2
  /\ ~Oversized(records[1]) /\ Oversized(records[2])
  /\ Sent(events) = << <<records[1]>>, <<records[2]>> >>

(* ------------------------------- C3 ------------------------------------ *)
\* The step that reads a record r of weight w <= L (and is not cut short by
\* the abort of C10), with T the running total before it.
C3_Step ==
  (loader \in {"mx", "ollama"} /\ ReadsRecord /\ ~Oversized(TheRecord) /\ pc' # "aborted") =>
    LET r == TheRecord
        w == Weight(r)
        T == CurTokens
        cur == CurRecs
    IN /\ (cur # <<>> /\ T + w > Limit) =>
            /\ Sent(NewEvents) = <<cur>>
            /\ \A i \in DOMAIN NewEvents :
                 IsCall(NewEvents[i]) => Recs(NewEvents[i].batch) = cur
            /\ CurRecs' = <<r>>
            /\ CurTokens' = w
       /\ T + w <= Limit =>
            /\ NewEvents = <<>>
            /\ CurRecs' = Append(cur, r)
            /\ CurTokens' = T + w

\* C3: a record that fits the limit but not the current batch makes the
\* batch go to the sink without it and becomes the new batch; a record that
\* fits the batch is appended without a sink call.
C3_FlushThenStartNew == [][C3_Step]_vars

\* weights [40000, 50000, 50000] against 120000: [r1, r2] of weight 90000 is
\* sent and r3 starts the next batch
C3_Witness ==
  /\ loader = "mx"
  /\ Len(records) = 3
  /\ [i \in 1..3 |-> Weight(records[i])] = <<40000, 50000, 50000>>
  /\ Sent(events) = << <<records[1], records[2]>> >>
  /\ SumTokens(Sent(events)[1]) = 90000
  /\ CurRecs = <<records[3]>>
  /\ CurTokens = 50000

(* ------------------------------- C4 ------------------------------------ *)
\* C4: after a run (a call of process_document) that was not aborted, the
\* imported and the failed counts add up to the number of records produced.
C4_CountsAddUp ==
  /\ (loader = "mx" /\ Returned) =>
       /\ chunks_inserted + chunks_failed = idx
       /\ total_chunks + total_failed = Len(records)
  /\ (loader = "ollama" /\ pc = "done") =>
       /\ stats.imported + stats.failed = stats.processed
       /\ stats.processed = Len(records)
  /\ (loader = "state" /\ pc = "done") =>
       /\ total_chunks_imported + total_failed = total_chunks_processed
       /\ total_chunks_processed = Len(records)

C4_Witness ==
  /\ loader = "ollama" /\ pc = "done"
  /\ stats.processed = 3
  /\ stats.imported > 0 /\ stats.failed > 0
  /\ \E i \in DOMAIN events : events[i].res.kind = "partial"

(* ------------------------------- C5 ------------------------------------ *)
\* The input has ended and the loader was not aborted.
InputEnded == loader \in Batching /\ Returned

\* Every record went to the sink in exactly one batch, in input order, and no
\* batch was empty.
AllSentOnce ==
  /\ Flatten(Sent(events)) = records
  /\ \A i \in DOMAIN Sent(events) : Sent(events)[i] # <<>>

LastSent == Sent(events)[Len(Sent(events))]

\* C5 as stated: at the end of the input the batches sent, concatenated in
\* order, are the input records, no batch sent is empty, and the current batch
\* is empty after the final flush.
C5_EmptyAfterFinalFlush ==
  InputEnded => (AllSentOnce /\ CurRecs = <<>>)

\* C5 (amended): at the end of the input the batches sent, concatenated in
\* order, are the input records and no batch sent is empty; the current batch
\* is left as the final flush found it, so it is either empty or a copy of the
\* last batch sent, and holds no record that was not sent.
C5_AllSentAtEnd ==
  InputEnded =>
    /\ AllSentOnce
    /\ \/ CurRecs = <<>>
       \/ Sent(events) # <<>> /\ CurRecs = LastSent

\* a batch failed on both attempts, and the records after it were batched and
\* sent all the same
C5_Witness ==
  /\ loader = "mx" /\ Returned
  /\ Len(records) = 3
  /\ Len(Sent(events)) = 2
  /\ \E i \in DOMAIN events :
       /\ IsCall(events[i]) /\ events[i].attempt = 1
       /\ events[i].res.kind = "raise"
       /\ Recs(events[i].batch) = Sent(events)[1]
  /\ CurRecs = Sent(events)[2]

(* ------------------------------- C6 ------------------------------------ *)
Retrying == {"mx", "mxold"}
Delay == IF loader = "mx" THEN retry_delay ELSE OLD_RETRY_SLEEP

\* The trace is a sequence of groups, one per batch (per record in
\* createCollectionOld.py): a call that returned, or a call that raised, one
\* sleep of the delay, and the second call of the same batch; the group that
\* follows is about another batch, and no sleep stands anywhere else.
RECURSIVE RetryShape(_)
RetryShape(ev) ==
  IF ev = <<>> THEN TRUE
  ELSE
    /\ IsCall(ev[1])
    /\ LET used == IF ev[1].res.kind = "raise" THEN 3 ELSE 1
           rest == SubSeq(ev, used + 1, Len(ev))
       IN /\ Len(ev) >= used
          /\ used = 3 =>
               /\ ev[2] = Sleep(Delay)
               /\ IsCall(ev[3]) /\ ev[3].batch = ev[1].batch /\ ev[3].op = ev[1].op
          /\ rest # <<>> => (IsCall(rest[1]) /\ rest[1].batch # ev[1].batch)
          /\ RetryShape(rest)

\* C6: insert_batch_with_retry and the insert loop of createCollectionOld.py
\* call the sink at most twice for a batch (a record); the second call
\* happens exactly when the first raised and follows one sleep of the retry
\* delay; there is no third call and no sleep after the second failure.
C6_AtMostOneRetry ==
  loader \in Retrying => RetryShape(events)

\* one batch was sent once, another was retried after the sleep and failed again
C6_Witness ==
  /\ loader = "mx"
  /\ \E i \in DOMAIN events :
       /\ i + 3 <= Len(events)
       /\ IsCall(events[i]) /\ events[i].res.kind # "raise"
       /\ events[i + 1].res.kind = "raise"
       /\ events[i + 2] = Sleep(retry_delay)
       /\ events[i + 3].res.kind = "raise"
       /\ events[i + 3].batch = events[i + 1].batch

(* ------------------------------- C7 ------------------------------------ *)
\* The step made one call of insert_batch_with_retry, whose two attempts
\* ended as given (TRUE: the attempt raised).
RetriedOnce(secondRaised) ==
  /\ loader = "mx"
  /\ Len(NewEvents) = 3
  /\ IsCall(NewEvents[1]) /\ NewEvents[1].res.kind = "raise"
  /\ IsCall(NewEvents[3]) /\ (NewEvents[3].res.kind = "raise") = secondRaised

C7_Step ==
  RetriedOnce(FALSE) =>
    /\ chunks_inserted' = chunks_inserted + Len(NewEvents[1].batch)
    /\ chunks_failed' = chunks_failed
    /\ log' = log

\* C7: when the first attempt raises and the second succeeds,
\* insert_batch_with_retry returns (batch_size, 0) and leaves the failure log
\* as it was.
C7_RetrySuccessLeavesLog == [][C7_Step]_vars

C7_Witness ==
  /\ loader = "mx"
  /\ Len(events) = 3
  /\ events[1].res.kind = "raise" /\ events[3].res = OkAnswer
  /\ Len(events[1].batch) = 2
  /\ chunks_inserted = 2 /\ chunks_failed = 0
  /\ log = <<>>

(* ------------------------------- C8 ------------------------------------ *)
C8_Step ==
  RetriedOnce(TRUE) =>
    LET batch_items == NewEvents[1].batch
        n == Len(batch_items)
    IN /\ chunks_inserted' = chunks_inserted
       /\ chunks_failed' = chunks_failed + n
       /\ Len(log') = Len(log) + n
       /\ SubSeq(log', 1, Len(log)) = log
       /\ \A i \in 1..n :
            /\ log'[Len(log) + i].chunk = batch_items[i].paragraph
            /\ log'[Len(log) + i].file = batch_items[i].file_name
            /\ log'[Len(log) + i].error = NewEvents[3].res.msg

\* C8: when both attempts raise for a batch of n records, the failure log
\* grows by n entries, one per record in batch order, all with the message of
\* the exception of the second attempt, and insert_batch_with_retry returns
\* (0, n).
C8_BothFailLogsEveryRecord == [][C8_Step]_vars

\* a batch of two records failed twice, with different messages
C8_Witness ==
  /\ loader = "mx"
  /\ Len(events) = 3
  /\ events[1].res.kind = "raise" /\ events[3].res.kind = "raise"
  /\ events[1].res.msg # events[3].res.msg
  /\ Len(events[1].batch) = 2
  /\ Len(log) = 2 /\ log[1].chunk # log[2].chunk
  /\ log[1].error = events[3].res.msg /\ log[2].error = events[3].res.msg
  /\ chunks_inserted = 0 /\ chunks_failed = 2

(* ------------------------------- C9 ------------------------------------ *)
\* Over the sink calls ev of a step: the objects handed over, and the objects
\* the sink reported as rejected.
RECURSIVE HandedOver(_)
HandedOver(ev) ==
  IF ev = <<>> THEN 0 ELSE Len(Head(ev).batch) + HandedOver(Tail(ev))

RECURSIVE RejectedIn(_)
RejectedIn(ev) ==
  IF ev = <<>> THEN 0 ELSE Cardinality(Head(ev).res.rej) + RejectedIn(Tail(ev))

\* The failure-log entries due for the rejected objects of the calls ev.
RejectionEntries(ev) ==
  UNION {{[error |-> RejectMessage(ev[i].batch[p]),
           properties |-> ev[i].batch[p],
           batch_number |-> ev[i].number] : p \in ev[i].res.rej} : i \in DOMAIN ev}

\* A step of the Ollama loader in which the sink was called and never raised.
C9_Step ==
  (/\ loader = "ollama"
   /\ NewEvents # <<>>
   /\ \A i \in DOMAIN NewEvents : NewEvents[i].res.kind # "raise") =>
    LET k == RejectedIn(NewEvents)
        n == HandedOver(NewEvents)
    IN /\ stats'.failed = stats.failed + k
       /\ stats'.imported = stats.imported + (n - k)
       /\ Len(log') = Len(log) + k
       /\ SubSeq(log', 1, Len(log)) = log
       /\ {log'[j] : j \in (Len(log) + 1)..Len(log')} = RejectionEntries(NewEvents)

\* A batch of which the sink rejected objects is handed over once only.
C9_NotResent ==
  loader = "ollama" =>
    \A i, j \in DOMAIN events :
      (events[i].res.kind = "partial" /\ i # j) =>
        /\ events[j].batch # events[i].batch
        /\ events[j].number # events[i].number

\* C9: when the sink returns and reports k rejected objects of a batch of n,
\* send_batch_to_weaviate writes k failure-log entries, one per rejected
\* object with that object's message and the batch number, adds k to
\* stats['failed'] and n - k to stats['imported'], and does not send the
\* batch again.
C9_PartialFailure == [][C9_Step]_vars /\ [](C9_NotResent)

\* two objects of a batch of three were rejected, for different reasons, and
\* the run went on to its end
C9_Witness ==
  /\ loader = "ollama" /\ pc = "done"
  /\ \E i \in DOMAIN events :
       /\ events[i].res.kind = "partial"
       /\ Len(events[i].batch) = 3
       /\ Cardinality(events[i].res.rej) = 2
  /\ Len(log) = 2 /\ log[1].error # log[2].error
  /\ log[1].batch_number = log[2].batch_number
  /\ stats.failed = 2 /\ stats.imported = 1

(* ------------------------------- C10 ----------------------------------- *)
\* The message, in lower case, holds 'disk usage too high' or 'read-only'.
FatalMessage(msg) ==
  \/ Contains(DISK_PATTERN, lower(ExcText[msg]))
  \/ Contains(READONLY_PATTERN, lower(ExcText[msg]))

FatalRaise(e) == e.res.kind = "raise" /\ FatalMessage(e.res.msg)

\* A fatal exception is the last thing the sink did, and it ended the run.
C10_Aborted ==
  loader = "ollama" =>
    \A i \in DOMAIN events :
      FatalRaise(events[i]) => (i = Len(events) /\ pc = "aborted")

\* An aborted run reads no line, produces no record and calls no sink.
C10_Stopped ==
  (loader = "ollama" /\ pc = "aborted") =>
    (pc' = pc /\ nunits' = nunits /\ records' = records /\ events' = events)

\* C10: once the sink raises an exception whose message holds, in any case,
\* 'disk usage too high' or 'read-only', the exception leaves
\* process_jsonl_file: no further line is read and no further batch is sent.
C10_FatalAborts == [](C10_Aborted) /\ [][C10_Stopped]_vars

\* the sink raised 'DISK usage too high' for the first batch while a second
\* one was due in the same step and input was left
C10_Witness ==
  /\ loader = "ollama" /\ pc = "aborted"
  /\ Len(events) = 1
  /\ events[1].res.kind = "raise" /\ events[1].res.msg = "disk"
  /\ Len(records) = 2 /\ Oversized(records[2])
  /\ batch_state.objects = <<records[1]>>

(* ======================= the two-phase loaders ========================= *)
\* The add_object calls of phase 2 (the chunks), in order.
ChunkEvents == SelectSeq(submitted, LAMBDA e : e.op = "add_chunk")

\* The identifier add_object returned in phase 1 for the article at position
\* art of the file (None: the article was not submitted).
ObtainedFor(art) ==
  IF \E i \in DOMAIN submitted : submitted[i].op = "add_article" /\ submitted[i].art = art
    THEN LET i == CHOOSE i \in DOMAIN submitted :
                    submitted[i].op = "add_article" /\ submitted[i].art = art
         IN submitted[i].uuid
    ELSE None

\* The chunks of the file, as positions of their articles, in file order.
RECURSIVE ChunkParents(_, _)
ChunkParents(data, art) ==
  IF art > Len(data) THEN <<>>
  ELSE [k \in 1..Len(data[art].sub_chunks) |-> art] \o ChunkParents(data, art + 1)

NonBlank(text) == \E i \in DOMAIN text : text[i] \notin Whitespace

(* ------------------------------- C11 ----------------------------------- *)
\* C11: in mx/populateCollection.py every chunk of every article is
\* submitted, without error; it carries a source_article reference exactly
\* when the full_content of its own article is not blank, and the reference is
\* the identifier phase 1 obtained for that article, also when two articles
\* have the same name.
C11_ChunkReferencesOwnArticle ==
  populate = "mx" =>
    /\ ppc # "failed" \/ submitted = <<>>
    /\ \A i \in DOMAIN ChunkEvents :
         LET e == ChunkEvents[i]
             parent == articles_data[e.art]
         IN /\ NonBlank(parent.full_content) =>
                 (e.ref # None /\ e.ref = ObtainedFor(e.art))
            /\ ~NonBlank(parent.full_content) => e.ref = None
    /\ ppc = "done" =>
         [i \in DOMAIN ChunkEvents |-> ChunkEvents[i].art] = ChunkParents(articles_data, 1)

\* two articles of the same name, both with chunks, the first with text and
\* the second blank: two chunks carry the identifier of the first, two none
C11_Witness ==
  /\ populate = "mx" /\ ppc = "done"
  /\ Len(articles_data) = 2
  /\ articles_data[1].article_name = articles_data[2].article_name
  /\ NonBlank(articles_data[1].full_content)
  /\ articles_data[2].full_content = <<" ">>
  /\ ObtainedFor(1) # None
  /\ [i \in DOMAIN ChunkEvents |-> ChunkEvents[i].ref]
       = <<ObtainedFor(1), ObtainedFor(1), None, None>>

(* ------------------------------- C12 ----------------------------------- *)
\* Whether phase 1 has to submit the article at position art of the file.
ToSubmit(art) ==
  populate = "mx" => NonBlank(articles_data[art].full_content)

\* C12: in the three two-phase loaders no chunk of a file is submitted before
\* every article of the file has been submitted and the article batch context
\* has been left.
C12_ArticlesBeforeChunks ==
  populate \in PopScripts =>
    \A i \in DOMAIN submitted :
      submitted[i].op = "add_chunk" =>
        \E j \in 1..(i - 1) :
          /\ submitted[j].op = "exit_articles"
          /\ \A k \in DOMAIN submitted : submitted[k].op = "add_article" => k < j
          /\ \A art \in DOMAIN articles_data :
               ToSubmit(art) =>
                 \E k \in 1..(j - 1) :
                   submitted[k].op = "add_article" /\ submitted[k].art = art

\* two articles, then the end of the article batch, then their chunks
C12_Witness ==
  /\ populate = "federal" /\ ppc = "done"
  /\ [i \in DOMAIN submitted |-> submitted[i].op]
       = <<"add_article", "add_article", "exit_articles",
           "add_chunk", "add_chunk", "add_chunk", "exit_chunks">>

(* ------------------------------- C13 ----------------------------------- *)
\* The record a failure-log entry is about.
RecordOfEntry(entry) == IF loader = "mx" THEN entry.chunk ELSE entry.properties

\* C13: once a run of one of the three batch loaders has started, the failure
\* log is empty until the first record is read, whatever the file held before,
\* and at every later moment, the end of the run included, each of its entries
\* is about a record of this run.
C13_LogStartsEmpty ==
  (loader \in Batching /\ pc # "start") =>
    /\ records = <<>> => log = <<>>
    /\ \A i \in DOMAIN log :
         \E k \in DOMAIN records : RecordOfEntry(log[i]) = records[k]

\* a finished run whose log holds the two entries of its one failed batch
C13_Witness ==
  /\ loader = "mx" /\ pc = "done"
  /\ Len(records) = 3
  /\ Len(log) = 2
  /\ log[1].chunk = records[1] /\ log[2].chunk = records[2]

(* ------------------------------- C14 ----------------------------------- *)
IsPrefix(old, new) ==
  Len(old) <= Len(new) /\ SubSeq(new, 1, Len(old)) = old

\* Once the run has started no step removes or rewrites an entry.
C14_Step ==
  (loader \in Batching /\ pc # "start") => IsPrefix(log, log')

\* An entry the loader could write next.
NextEntry ==
  IF loader = "mx"
    THEN [error |-> "timeout", chunk |-> NewRecord(160001), file |-> nunits]
    ELSE [error |-> "timeout", properties |-> NewRecord(160001),
          batch_number |-> Len(events) + 1]

\* The append of the running loader, applied to the file as it is.
Appended ==
  CASE loader = "mx"     -> append_oversized_chunk(log, NextEntry)
    [] loader = "state"  -> state_append_failed_chunk(log, NextEntry)
    [] loader = "ollama" -> ollama_append_failed_chunk(log, NextEntry)

\* A call of the append leaves the entries of the file as they were and in
\* their order, and adds the new entry, once, at the end.
C14_Call ==
  loader \in Batching => Appended = log \o <<NextEntry>>

\* C14: during a run the failure log is append-only: a call of
\* append_oversized_chunk or append_failed_chunk keeps every earlier entry,
\* unchanged and in order, and adds one entry at the end; no operation of a
\* loader removes or rewrites an entry.
C14_AppendOnly == [][C14_Step]_vars /\ [](C14_Call)

\* a batch of two failed, its two entries are in the file in batch order, and
\* the run went on with a third record to its end
C14_Witness ==
  /\ loader = "mx" /\ pc = "done"
  /\ Len(records) = 3
  /\ Len(log) = 2
  /\ log[1].chunk.id < log[2].chunk.id
  /\ Len(Sent(events)) = 2

(* ------------------------------- C15 ----------------------------------- *)
Jsonl == {"state", "ollama"}

\* The step that reads a line json.loads refuses.
C15_Step ==
  (loader \in Jsonl /\ bad_lines' = bad_lines + 1) =>
    /\ CurRecs' = CurRecs /\ CurTokens' = CurTokens
    /\ UNCHANGED <<current_batch, current_batch_tokens, batch_state>>
    /\ UNCHANGED <<stats, total_chunks_processed, total_chunks_imported, total_failed,
                   total_batches>>
    /\ UNCHANGED <<log, events, records>>
    /\ pc = "units" /\ pc' = "units"

\* C15: in the two JSONL loaders a line that is not valid JSON is skipped: the
\* batch, the running total, the counters and the failure log stay as they
\* are, the sink is not called, and the loop goes on to the next line.
C15_BadLineSkipped == [][C15_Step]_vars

\* the first line was refused, the second is being processed and has given
\* records
C15_Witness ==
  /\ loader = "ollama" /\ pc = "records"
  /\ nunits = 2 /\ bad_lines = 1
  /\ Len(records) >= 2
  /\ stats.processed = Len(records)

(* ------------------------------- C16 ----------------------------------- *)
\* floor(n / 4): the q with 4 q <= n < 4 (q + 1)
Floor4(n) == CHOOSE q \in 0..n : 4 * q <= n /\ n < 4 * (q + 1)

\* C16: approx_tokens(text) is max(1, floor(len(text) / 4)): it is 1 for the
\* lengths 0 to 7, never below 1, the same on every call with the same text,
\* and a longer text never gets a smaller value.
C16_ApproxTokens ==
  \A i \in DOMAIN results :
    /\ results[i] = (IF Floor4(text_len) > 1 THEN Floor4(text_len) ELSE 1)
    /\ text_len <= 7 => results[i] = 1
    /\ results[i] >= 1
    /\ results[i] = results[1]
    /\ \A longer \in (text_len + 1)..(MaxTextLen + 1) :
         results[i] <= approx_tokens(longer)

\* a text of 7 characters weighs 1 on both calls
C16_Witness ==
  /\ text_len = 7
  /\ results = <<1, 1>>

(* --------------------------- C17 and C18 ------------------------------- *)
\* What a step that reads an oversized record has done when it ends: the
\* pending batch, if there was one, and then the record alone have gone to the
\* sink, in that order, and the accumulator is empty with a total of 0.
OversizedDoneAtOnce ==
  /\ Sent(NewEvents) = (IF CurRecs # <<>> THEN <<CurRecs>> ELSE <<>>) \o << <<TheRecord>> >>
  /\ CurRecs' = <<>>
  /\ CurTokens' = 0

C17_Step ==
  (loader = "mx" /\ ReadsRecord /\ Oversized(TheRecord)) => OversizedDoneAtOnce

\* C17: in process_document of mx/addToCollection.py, for every record
\* heavier than MAX_BATCH_TOKENS, with or without a pending batch: before the
\* next record is considered the pending batch and then the record alone have
\* been sent, the current batch is empty and the running total is 0.
C17_MxOversizedAtOnce == [][C17_Step]_vars

C18_Step ==
  (loader \in Jsonl /\ ReadsRecord /\ Oversized(TheRecord) /\ pc' # "aborted") =>
    OversizedDoneAtOnce

\* C18: in batchAddStateCollection.py and in process_chunks_from_line, for
\* every record heavier than MAX_BATCH_TOKENS: before the next record is
\* considered the pending batch, if any, and then the record alone have been
\* sent, the current batch is empty and the running total is 0.
C18_JsonlOversizedAtOnce == [][C18_Step]_vars

\* an oversized record arrived on a pending batch of two
C18_Witness ==
  /\ loader = "state" /\ pc = "records"
  /\ Len(records) = 3 /\ Oversized(records[3])
  /\ Sent(events) = << <<records[1], records[2]>>, <<records[3]>> >>
  /\ current_batch = <<>> /\ current_batch_tokens = 0

(* ------------------------------- C19 ----------------------------------- *)
Warned(r) == \E i \in DOMAIN warnings : warnings[i] = r

\* C19: in the three batch loaders every record heavier than the limit has a
\* size warning printed when it is handled, whether the current batch was
\* empty or not when it arrived.
C19_OversizedWarned ==
  (loader \in Batching /\ pc # "aborted") =>
    \A k \in DOMAIN records : Oversized(records[k]) => Warned(records[k])

\* The same for the two JSONL loaders alone.
C19_JsonlOversizedWarned ==
  (loader \in Jsonl /\ pc # "aborted") =>
    \A k \in DOMAIN records : Oversized(records[k]) => Warned(records[k])

(* ------------------------------- C20 ----------------------------------- *)
\* The sink call whose batch held the record of the entry and raised for good:
\* the entry was written because that whole batch failed.
FailedBatchOf(entry, e) ==
  /\ IsCall(e) /\ e.res.kind = "raise"
  /\ loader = "mx" => e.attempt = 1
  /\ Holds(Recs(e.batch), RecordOfEntry(entry))

WholeBatchEntry(entry) == \E j \in DOMAIN events : FailedBatchOf(entry, events[j])

\* The entry carries the number under which its batch went to the sink.
NumberedAsItsBatch(entry) ==
  /\ "batch_number" \in DOMAIN entry
  /\ \A j \in DOMAIN events :
       FailedBatchOf(entry, events[j]) => entry.batch_number = events[j].number

Unreading == {"mx", "state"}

\* The imported count of the run so far (addToCollection.py adds the count of
\* the open document to the total when process_document returns).
Imported ==
  CASE loader = "mx"    -> IF pc = "records" THEN total_chunks + chunks_inserted
                           ELSE total_chunks
    [] loader = "state" -> total_chunks_imported
    [] OTHER            -> stats.imported

\* The failed count of the run so far.
Failed ==
  CASE loader = "mx"     -> IF pc = "records" THEN total_failed + chunks_failed
                            ELSE total_failed
    [] loader = "ollama" -> stats.failed
    [] OTHER             -> total_failed

\* The objects the sink stored, over the calls ev.
RECURSIVE AcceptedIn(_)
AcceptedIn(ev) ==
  IF ev = <<>> THEN 0
  ELSE (IF Head(ev).res.kind = "raise" THEN 0
        ELSE Len(Head(ev).batch) - Cardinality(Head(ev).res.rej))
       + AcceptedIn(Tail(ev))

\* The records the sink rejected in a call that returned.
RejectedRecords ==
  UNION {{Recs(events[i].batch)[p] : p \in events[i].res.rej} :
           i \in {j \in DOMAIN events : events[j].res.kind = "partial"}}

\* C21: in insert_batch_with_retry and send_batch, when the sink returns and
\* reports rejected records, each rejected record is in the failure log and
\* counted as failed, and the imported count never exceeds the number of
\* records the sink accepted.
C21_RejectedLoggedAndCounted ==
  (loader \in Unreading /\ pc # "start") =>
    /\ \A r \in RejectedRecords :
         \E i \in DOMAIN log : RecordOfEntry(log[i]) = r
    /\ Failed >= Cardinality(RejectedRecords)
    /\ Imported <= AcceptedIn(Calls(events))

(* ------------------------------- C22 ----------------------------------- *)
\* C22: in addToCollection.py and batchAddStateCollection.py, an exception of
\* the sink whose message says the store is read-only or over capacity aborts
\* the run: it is the last call to the sink (the batch is not retried, no
\* later batch is sent).
C22_FatalAbortsUnreading ==
  loader \in Unreading =>
    \A i \in DOMAIN events :
      FatalRaise(events[i]) => (i = Len(events) /\ pc = "aborted")

(* ------------------------------- C23 ----------------------------------- *)
\* The sink raised a non-fatal exception for the call e.
NonFatalRaise(e) == e.res.kind = "raise" /\ ~FatalMessage(e.res.msg)

\* C23: in send_batch and send_batch_to_weaviate, when the sink raises a
\* non-fatal exception for a batch, the same batch is submitted once more
\* after a fixed delay, and the records of the batch are in the failure log
\* only if the second submission failed as well.
C23_JsonlRetriesOnce ==
  (loader \in Jsonl /\ pc # "start") =>
    \A i \in DOMAIN events :
      (IsCall(events[i]) /\ events[i].attempt = 0 /\ NonFatalRaise(events[i])) =>
        /\ i + 2 <= Len(events)
        /\ events[i + 1].op = "sleep"
        /\ IsCall(events[i + 2])
        /\ events[i + 2].batch = events[i].batch
        /\ events[i + 2].res.kind # "raise" =>
             \A j \in DOMAIN log :
               \A p \in DOMAIN events[i].batch :
                 log[j].properties # events[i].batch[p]

(* ------------------------------- C24 ----------------------------------- *)
\* The text on disk holds the entry whole.
OnDisk(entry) ==
  \E i \in 1..(Len(disk) - 2) : SubSeq(disk, i, i + 2) = dump_entry(entry)

\* C24: when a run that keeps its failure log as a JSON array is killed, at
\* any point, an append under way included, the file on disk holds every
\* entry whose append had completed before the kill.
C24_ArrayLogSurvivesKill ==
  (fkind = "array" /\ fpc = "killed") =>
    \A i \in DOMAIN completed : OnDisk(completed[i])

(* ------------------------------- C25 ----------------------------------- *)
\* The text is made of whole lines, each one entry and its newline.
RECURSIVE WholeLines(_)
WholeLines(text) ==
  \/ text = <<>>
  \/ /\ Len(text) >= 4
     /\ text[2].c = "body"
     /\ SubSeq(text, 1, 4) = dump_entry(text[2].entry) \o <<Punct("\n")>>
     /\ WholeLines(SubSeq(text, 5, Len(text)))

\* C25: when a run that keeps its failure log as a JSONL file is killed, at
\* any point, the file on disk is made of complete, newline-terminated entries
\* only and holds every entry whose append had completed.
C25_JsonlLogSurvivesKill ==
  (fkind = "jsonl" /\ fpc = "killed") =>
    /\ WholeLines(disk)
    /\ \A i \in DOMAIN completed : OnDisk(completed[i])

(* ------------------------------- C26 ----------------------------------- *)
\* The documents the items of a batch come from.
FilesOf(batch) == {batch[p].file_name : p \in DOMAIN batch}

\* Between two submissions of one batch no other batch is submitted.
NoOtherBatchBetween ==
  \A i \in DOMAIN events :
    IsCall(events[i]) =>
      \A k \in (i + 2)..Len(events) :
        (IsCall(events[k]) /\ events[k].batch = events[i].batch) =>
          \A j \in (i + 1)..(k - 1) :
            IsCall(events[j]) => events[j].batch = events[i].batch

\* Every record read so far is in a batch whose flush has finished or in the
\* accumulator: none was read past the one the loop is at.
ReadOneAtATime ==
  IF pc = "records" THEN Flatten(Sent(events)) \o CurRecs = records
  ELSE Flatten(Sent(events)) = records

\* A batch holds items of one document, the open one when it is being built,
\* and the batches of a document are all sent before any of the next.
DocumentsInTurn ==
  /\ \A i \in DOMAIN events :
       IsCall(events[i]) =>
         /\ Cardinality(FilesOf(events[i].batch)) = 1
         /\ \A j \in (i + 1)..Len(events) :
              IsCall(events[j]) =>
                events[i].batch[1].file_name <= events[j].batch[1].file_name
  /\ pc = "records" => FilesOf(current_batch) \subseteq {nunits}

\* C26: in addToCollection.py at most one batch is in flight: from the first
\* submission of a batch until its flush has finished no other batch is
\* submitted and no further record is read, and the documents are processed
\* one after another.
C26_OneBatchInFlight ==
  (loader = "mx" /\ pc # "start") =>
    /\ NoOtherBatchBetween
    /\ ReadOneAtATime
    /\ DocumentsInTurn

\* two documents; a batch of the first was retried and stored at the second
\* attempt, and the batch of the second followed it
C26_Witness ==
  /\ loader = "mx" /\ pc = "done"
  /\ nunits = 2 /\ Len(records) = 3
  /\ Len(events) = 4
  /\ events[1].res.kind = "raise" /\ events[2].op = "sleep"
  /\ events[3].batch = events[1].batch /\ events[3].res.kind = "ok"
  /\ FilesOf(events[3].batch) = {1}
  /\ FilesOf(events[4].batch) = {2}

(* ------------------------------- C27 ----------------------------------- *)
\* sum(len(article_data.get("sub_chunks", [])) for article_data in articles_data)
RECURSIVE TotalSubChunks(_)
TotalSubChunks(data) ==
  IF data = <<>> THEN 0 ELSE Len(Head(data).sub_chunks) + TotalSubChunks(Tail(data))

\* The article at position art of the file was submitted in phase 1.
SubmittedArticle(art) ==
  \E i \in DOMAIN submitted : submitted[i].op = "add_article" /\ submitted[i].art = art

\* C27: in mx/populateCollection.py an article is submitted in phase 1 if and
\* only if its full_content has a character that is not whitespace, otherwise
\* its identifier is recorded as None; after phase 1 inserted_articles +
\* skipped_articles is the number of articles and every index has an entry in
\* article_uuids; after phase 2 chunks_with_reference +
\* chunks_without_reference = chunk_count = the number of sub_chunks.
C27_MxCountsAndSkips ==
  populate = "mx" =>
    /\ \A art \in 1..a_pos :
         /\ SubmittedArticle(art) <=> NonBlank(articles_data[art].full_content)
         /\ (art - 1) \in DOMAIN article_uuids
         /\ ~NonBlank(articles_data[art].full_content) => article_uuids[art - 1] = None
         /\ NonBlank(articles_data[art].full_content) => article_uuids[art - 1] # None
    /\ ppc \in {"chunks", "done"} =>
         /\ inserted_articles + skipped_articles = Len(articles_data)
         /\ DOMAIN article_uuids = 0..(Len(articles_data) - 1)
    /\ ppc = "done" =>
         /\ chunks_with_reference + chunks_without_reference = chunk_count
         /\ chunk_count = TotalSubChunks(articles_data)

\* a file of two articles with chunks, the first blank, the second with text
C27_Witness ==
  /\ populate = "mx" /\ ppc = "done"
  /\ Len(articles_data) = 2
  /\ articles_data[1].full_content = <<" ">>
  /\ NonBlank(articles_data[2].full_content)
  /\ inserted_articles = 1 /\ skipped_articles = 1
  /\ chunks_with_reference = 2 /\ chunks_without_reference = 1
  /\ article_uuids[0] = None /\ article_uuids[1] # None

(* ------------------------------- C28 ----------------------------------- *)
\* C28: in us/federal/populateCollections.py and us/state/
\* populateCollections.py an article whose full_content is empty is not
\* submitted to the article collection, and its chunks are submitted without
\* a source_article reference.
C28_EmptyArticleSkipped ==
  populate \in {"federal", "state"} =>
    \A art \in DOMAIN articles_data :
      articles_data[art].full_content = <<>> =>
        /\ ~SubmittedArticle(art)
        /\ \A i \in DOMAIN submitted :
             (submitted[i].op = "add_chunk" /\ submitted[i].art = art) =>
               submitted[i].ref = None

(* ------------------------------- C29 ----------------------------------- *)
\* C29: in us/federal/populateCollections.py and us/state/
\* populateCollections.py every chunk is submitted with a source_article
\* reference equal to the identifier phase 1 obtained for the chunk's own
\* article, also when two articles of the file have the same key.
C29_ChunkReferencesOwnArticleByKey ==
  populate \in {"federal", "state"} =>
    \A i \in DOMAIN ChunkEvents :
      /\ ChunkEvents[i].ref # None
      /\ ChunkEvents[i].ref = ObtainedFor(ChunkEvents[i].art)

(* ------------------------------- C30 ----------------------------------- *)
\* C30: in the two-phase loaders, whenever a chunk is submitted with a
\* source_article reference, the identifier referenced is that of an article
\* stored in the article collection, whatever the sink did in phase 1, a sink
\* that rejects single articles without raising included.
C30_ReferencedArticleStored ==
  populate \in PopScripts =>
    \A i \in DOMAIN ChunkEvents :
      ChunkEvents[i].ref # None => ChunkEvents[i].ref \in stored

(* ------------------------------- C31 ----------------------------------- *)
\* C31: in addToCollection.py a malformed input file is skipped: the run is
\* not cut short by it, the loop of main stays at its files and goes on to
\* the remaining ones and to the summary.
C31_MalformedFileSkipped ==
  loader = "mx" => pc \in {"start", "units", "records", "done"}

(* ------------------------------- C32 ----------------------------------- *)
\* The numbers of the parent keys of the line, and the value of the key of
\* number n.
NumbersOfLine == {n \in ParentNumbers : \E i \in DOMAIN line_data : line_data[i].key = KeyText(n)}
ValueOfNumber(n) ==
  line_data[CHOOSE i \in DOMAIN line_data : line_data[i].key = KeyText(n)].value

\* The numbers of the set, smallest first.
Ascending(numbers) ==
  CHOOSE s \in [1..Cardinality(numbers) -> numbers] :
    \A i, j \in DOMAIN s : i < j => s[i] < s[j]

C33_TotalIsSumOfBatch ==
  loader \in Batching =>
    /\ CurTokens = SumTokens(CurRecs)
    /\ CurTokens = 0 <=> CurRecs = <<>>

\* a batch was flushed to make room, and the new batch has grown to two records
C33_Witness ==
  /\ loader = "state" /\ pc = "records"
  /\ Len(records) = 3
  /\ Len(events) = 1 /\ Recs(events[1].batch) = <<records[1]>>
  /\ CurRecs = <<records[2], records[3]>>
  /\ CurTokens = 90000

(* ------------------------------- C34 ----------------------------------- *)
\* C34: run on the same record weights with the same limit, and with a sink
\* that never stops the run, the three accumulators hand the same batches to
\* the sink, in the same order: once all three have finished, their sequences
\* of batches are equal.
C34_SamePartition ==
  (\A a \in Accumulators : part_acc # <<>> /\ part_acc[a].done) =>
    /\ part_acc["process_document"].sent = part_acc["state_loop"].sent
    /\ part_acc["state_loop"].sent = part_acc["process_jsonl_file"].sent

\* all three finished a run in which an oversized record met a pending batch
\* and a last batch was left over
C34_Witness ==
  /\ part_acc # <<>>
  /\ \A a \in Accumulators : part_acc[a].done
  /\ part_limit = MX_MAX_BATCH_TOKENS
  /\ part_weights = <<50000, 140000, 40000>>
  /\ part_acc["process_document"].sent = << <<1>>, <<2>>, <<3>> >>

(* ------------------------------- C35 ----------------------------------- *)
Stopped == pc \in {"done", "aborted"}

\* C35: whenever a batch loader has stopped, the failure log holds as many
\* entries as the loader counted failed records, also when the Ollama loader
\* stopped through the read-only / disk-usage abort.
C35_LogMatchesFailedCount ==
  loader \in Batching /\ Stopped => Len(log) = Failed

(* ------------------------------- C36 ----------------------------------- *)
Numbering == {"state", "ollama"}

\* total_batches / stats['batches']
BatchCounter == IF loader = "ollama" THEN stats.batches ELSE total_batches

\* C36: in the two JSONL loaders the batches handed to the sink carry the
\* numbers 1, 2, 3, ... in the order they are sent, normal batches, oversized
\* singletons and the final batch alike, and once the run has stopped the
\* batch counter is the number of submissions made.
C36_BatchesNumberedInOrder ==
  loader \in Numbering =>
    /\ \A i \in 1..Len(events) : IsCall(events[i]) /\ events[i].number = i
    /\ Stopped => BatchCounter = Len(events)

\* a finished run that sent a normal batch, an oversized singleton and a final
\* batch
C36_Witness ==
  /\ loader = "ollama" /\ pc = "done"
  /\ Len(records) = 3
  /\ ~Oversized(records[1]) /\ Oversized(records[2])
  /\ Sent(events) = << <<records[1]>>, <<records[2]>>, <<records[3]>> >>
  /\ events[3].number = 3
  /\ stats.batches = 3

(* ------------------------------- C37 ----------------------------------- *)
\* C37: after insert_batch_with_retry has returned, no input record is held
\* by the sink more than once, and when the batch was counted as inserted
\* every one of its records is held exactly once; also when the first attempt
\* raised after the sink had stored part of the batch.
C37_StoredAtMostOnce ==
  retry_pc = "returned" =>
    /\ \A i \in DOMAIN sink_count : sink_count[i] <= 1
    /\ retry_returned[1] = Len(retry_batch) =>
         \A i \in DOMAIN sink_count : sink_count[i] = 1

====
